---------------------------- MODULE Spec2Model ----------------------------
(***************************************************************************)
(* A model of the CSS-loading userscripts of yfjuu4/ai-chat-styles:        *)
(*   "v3.0"  src/Universal_Website_Styler.js lines 1-1326                  *)
(*   "v4.0"  src/Universal_Website_Styler.js lines 1328-1946               *)
(*   "v2.2"  src/unnamed/part_000                                          *)
(* One behaviour follows one installed script (variable variant).          *)
(* Strings are sequences of one-character strings; times are milliseconds. *)
(***************************************************************************)
EXTENDS Integers, Sequences, FiniteSets, TLC

(***************************************************************************)
(* Bounds of the model.                                                    *)
(***************************************************************************)
MaxLen == 2          \* longest content string enumerated for the cache
MaxTicks == 2        \* clock ticks (of TickMs each) a behaviour may take
MaxCalls == 2        \* pipeline activations alive at once
ErrEpoch == 1020     \* Date.now() when the error log is first exercised
ErrTicks == 11       \* milliseconds the error log is exercised for
MaxMsgs == 2         \* elements the collapse/expand script finds on the page
HeightStep == 50     \* px between the heights of an element that are told apart
MaxTimers == 1       \* pending setTimeout callbacks of one kind
MaxListeners == 1    \* DOMContentLoaded listeners the script holds
V3Retries == 2       \* rounds of v3.0 applyWithRetry followed (CONFIG.MAX_RETRIES is 20)
V3Checks == 1        \* v3.0 maxChecks of the aggressive observer followed (it is 100)
ThrottleStep == 100  \* ms the clock advances by while utils.throttle is exercised
ThrottleTicks == 12  \* clock steps followed while utils.throttle is exercised
MaxURLs == 2         \* object URLs alive at once

(***************************************************************************)
(* Optional values (JavaScript null / undefined).                          *)
(***************************************************************************)
None == [has |-> FALSE]
Some(v) == [has |-> TRUE, val |-> v]

\* The outcome of an expression that threw, and try { r } catch { value }.
Thrown == [has |-> FALSE, thrown |-> TRUE]

Catch(r, value) == IF r = Thrown THEN value ELSE r

Variants == {"v2.2", "v3.0", "v4.0"}

(***************************************************************************)
(* Text.                                                                   *)
(***************************************************************************)
Quote == "\""
Backslash == "\\"
Chars == {"a", "{", " ", Quote, Backslash}

RECURSIVE StringsOfLen(_)
StringsOfLen(n) ==
    IF n = 0 THEN {<<>>}
    ELSE {Append(s, c) : s \in StringsOfLen(n - 1), c \in Chars}

Strings == UNION {StringsOfLen(n) : n \in 0..MaxLen}

\* The strings in which JSON's two escaped characters occur.
CacheStrings == {s \in Strings : \A i \in 1..Len(s) : s[i] \in {"a", Quote, Backslash}}

\* String.prototype.trim: drop leading and trailing white space.
RECURSIVE TrimLeft(_)
TrimLeft(s) ==
    IF s # <<>> /\ Head(s) = " " THEN TrimLeft(Tail(s)) ELSE s

RECURSIVE TrimRight(_)
TrimRight(s) ==
    IF s # <<>> /\ s[Len(s)] = " " THEN TrimRight(SubSeq(s, 1, Len(s) - 1)) ELSE s

trim(s) == TrimRight(TrimLeft(s))

\* String.prototype.includes for a one-character needle.
includes(s, c) == \E i \in 1..Len(s) : s[i] = c

\* JavaScript truthiness of a string-or-null value.
Truthy(o) == o.has /\ Len(o.val) > 0

(***************************************************************************)
(* JSON.stringify / JSON.parse of a string value: the text between the     *)
(* quotes.  stringify escapes the quote and the backslash; parse rejects   *)
(* a bare quote, a dangling backslash and an unknown escape.               *)
(***************************************************************************)
SyntaxError == <<"SyntaxError">>

JSONEscapeChar_NoBackslash(c) ==
    IF c = Quote THEN <<Backslash, Quote>> ELSE <<c>>

JSONEscapeChar(c) ==
    IF c = Quote THEN <<Backslash, Quote>>
    ELSE IF c = Backslash THEN <<Backslash, Backslash>>
    ELSE <<c>>

RECURSIVE JSONEscape(_)
JSONEscape(s) ==
    IF s = <<>> THEN <<>> ELSE JSONEscapeChar(Head(s)) \o JSONEscape(Tail(s))

RECURSIVE JSONUnescape(_)
JSONUnescape(t) ==
    IF t = <<>> THEN <<>>
    ELSE IF Head(t) = Quote THEN SyntaxError
    ELSE IF Head(t) = Backslash THEN
        IF Len(t) < 2 \/ t[2] \notin {Quote, Backslash} THEN SyntaxError
        ELSE LET rest == JSONUnescape(SubSeq(t, 3, Len(t)))
             IN  IF rest = SyntaxError THEN SyntaxError ELSE <<t[2]>> \o rest
    ELSE LET rest == JSONUnescape(Tail(t))
         IN  IF rest = SyntaxError THEN SyntaxError ELSE <<Head(t)>> \o rest

(***************************************************************************)
(* A storage item is absent or the JSON text of a cache object; the css    *)
(* member of the text is in escaped form.  v4.0 calls the url member       *)
(* cdnURL; v2.2 and v4.0 write no version.  An item some other writer      *)
(* left may also be the text null, the text of a number, or an object      *)
(* whose css member is a number (NotAString).                              *)
(***************************************************************************)
NoItem == [kind |-> "none"]
NullItem == [kind |-> "null"]
NumberItem == [kind |-> "number"]
NotAString == <<"number">>

\* The members destructured from a number: every one is undefined.  The
\* only reader that looks at them (v3.0) tests the url first.
Undefined == "undefined"
NumberMembers == [css |-> <<>>, timestamp |-> 0, url |-> Undefined, version |-> Undefined]

JSONstringify(obj) ==
    [kind |-> "object", css |-> JSONEscape(obj.css), timestamp |-> obj.timestamp,
     url |-> obj.url, version |-> obj.version]

\* JSON.parse: the parsed value (None for null), or Thrown when the text
\* is not JSON.
JSONparse(text) ==
    IF text = NullItem THEN None
    ELSE IF text = NumberItem THEN Some(NumberMembers)
    ELSE LET css == JSONUnescape(text.css)
         IN  IF css = SyntaxError THEN Thrown
             ELSE Some([css |-> css, timestamp |-> text.timestamp,
                        url |-> text.url, version |-> text.version])


(***************************************************************************)
(* Configuration (CONFIG and SITES of each script).                        *)
(***************************************************************************)
HourMs == 60 * 60 * 1000
CACHE_DURATION(v) == IF v = "v4.0" THEN 24 * HourMs ELSE 12 * HourMs

\* A tick of the model's clock: one cache lifetime of the installed script.
TickMs(v) == CACHE_DURATION(v)

\* SITES[...].cdnURLs of v4.0, in priority order.
cdnURLs == <<"jsdelivr", "statically", "githack", "combinatronics", "githubraw">>

\* SITES[...].styleURL: the primary URL of v3.0 (jsDelivr) and v2.2 (GitHub raw).
styleURL(v) == IF v = "v2.2" THEN "githubraw" ELSE "jsdelivr"

\* SITES[...].fallbackURL of v3.0 and backupStyleURL of v2.2.
fallbackURL(v) == IF v = "v2.2" THEN "jsdelivr" ELSE "githubraw"

\* SITES[...].version of v3.0; the other scripts configure none.
siteVersion(v) == IF v = "v3.0" THEN "v3.0" ELSE "-"

\* CONFIG.MAX_RETRIES of v4.0: passes over the URL x transport matrix.
MAX_RETRIES_V4 == 2

\* v4.0 fetchFromURL: css.length < 10 is invalid.
MIN_CSS_LENGTH == 10

\* v3.0 fetchForBerryBrowser: css.trim().length > 10.
BERRY_MIN_TRIM == 10

VARIABLES
    variant,        \* the installed script
    hasGrants,      \* v3.0 state.hasGrants: the GM_* functions exist
    isBerryBrowser, \* v3.0 state.isBerryBrowser, v2.2 isBerryBrowser
    site,           \* the SITES entry in use: "chatgpt" or "claude"
    appendThrows,   \* document.head.appendChild throws for a style element
    pageReady,      \* the elements the profile's ready check looks for are there
    now,            \* Date.now()
    localStorage,   \* [cache, enabled: the items under the two keys]
    gmStore,        \* GM_setValue store: [cache, enabled: value or None]
    lastWrite,      \* the last cache write: [css, url, at] or None
    lastRead,       \* the last cache read since: [entry, at, result] or None;
                    \* under SpecFetch the last answer: [ok, body, error]
    boot,           \* the script's start-up: "start", "init", "up" or "off"
    calls,          \* the activations of the asynchronous pipeline functions
    net,            \* the requests awaiting the network
    dom,            \* the elements the script added, in document order
    docReady,       \* document.readyState # 'loading'
    cssContent,     \* state.cssContent (v3.0, v4.0)
    isEnabled,      \* v4.0 state.isEnabled
    isFetching,     \* v4.0 state.isFetching
    successfulCDN,  \* v4.0 state.successfulCDN
    listeners,      \* v4.0 DOMContentLoaded listeners: the css each will inject
    controls,       \* the script's buttons / menu commands are in place
    urlChanged,     \* location.href differs from the URL last seen
    timers,         \* pending setTimeout callbacks, by kind
    isLoading,      \* v3.0 state.isLoading
    lastApplyRecent,\* v3.0: Date.now() - state.lastApplyTime < 500; v2.2: less
                    \* than 500 ms ago the observer started styleManager.apply
    observer,       \* v3.0 state.observer: "none", "standard", "aggressive", "stopped"
    checkCount,     \* v3.0 checkCount of the aggressive observer
    throttleRecent, \* v3.0 throttledReapply: currentTime - lastExecTime <= delay
    removedByHost,  \* the page removed the artifact and it is not back yet
    objectURLs,     \* the object URLs created and not revoked
    throttled,      \* a function returned by utils.throttle: [lastExecTime,
                    \* timer (the pending timeout), execAt and arg (when and
                    \* with what func last ran), called (the last call's argument)]
    errlog,         \* v3.0 error log: [keys (the timestamps of the localStorage
                    \* keys 'ai_styler_error_<timestamp>'), stored (those ever stored)]
    chat            \* the collapse/expand script: [msgs (the elements its selector
                    \* matches, in document order), store (localStorage by message
                    \* id), op and at (what happened last, and to which message)]

envVars == <<variant, hasGrants, isBerryBrowser, site, appendThrows, pageReady>>
storeVars == <<localStorage, gmStore>>
histVars == <<lastWrite, lastRead>>
cacheVars == <<localStorage, gmStore, now, lastWrite, lastRead>>
v4Vars == <<isEnabled, isFetching, successfulCDN, listeners>>
pageVars == <<dom, docReady, controls, urlChanged, timers>>
v3Vars == <<isLoading, lastApplyRecent, observer, checkCount, throttleRecent, removedByHost>>
pipeVars == <<boot, calls, net, cssContent, isEnabled, isFetching, listeners, pageVars>>
vars == <<envVars, storeVars, histVars, now, boot, calls, net, cssContent, v4Vars,
          pageVars, v3Vars, objectURLs, throttled, errlog, chat>>

(***************************************************************************)
(* PersistentCache.                                                        *)
(***************************************************************************)
\* v3.0 utils.getValue(cacheKey, null): GM_getValue when granted, else
\* JSON.parse of the localStorage item with null on any error.
getValue(ls, gm, grants) ==
    IF grants THEN gm.cache
    ELSE IF ls.cache = NoItem THEN None
    ELSE Catch(JSONparse(ls.cache), None)

Expired_AtBoundary(v, t, timestamp) == t - timestamp >= CACHE_DURATION(v)

\* The expiry test shared by the three readers: now - timestamp > CACHE_DURATION.
Expired(v, t, timestamp) == t - timestamp > CACHE_DURATION(v)

\* v3.0 utils.getCachedCSS: the css or None.
V3_getCachedCSS(ls, gm, grants, t) ==
    LET data == getValue(ls, gm, grants)
    IN  IF ~data.has THEN None
        ELSE IF data.val.url # styleURL("v3.0") THEN None
        ELSE IF Expired("v3.0", t, data.val.timestamp) THEN None
        ELSE IF data.val.version # siteVersion("v3.0") THEN None
        ELSE Some(data.val.css)

V4_getFromCache_Miss(ls, t, cdn) == [css |-> None, cdn |-> cdn]

\* v4.0 utils.getFromCache: [css: the css or None, cdn: the new
\* state.successfulCDN]; any exception gives null.
\* Inside its try: JSON.parse may throw, destructuring null throws, and
\* css.length throws when css is undefined (the members of a number; the
\* comparison of its undefined timestamp is false).
V4_getFromCache(ls, t, cdn) ==
    IF ls.cache = NoItem THEN [css |-> None, cdn |-> cdn]
    ELSE LET parsed == JSONparse(ls.cache)
             tried ==
                IF ~parsed.has THEN Thrown
                ELSE IF ls.cache = NumberItem THEN Thrown
                ELSE IF Expired("v4.0", t, parsed.val.timestamp)
                     THEN [css |-> None, cdn |-> cdn]
                ELSE [css |-> Some(parsed.val.css), cdn |-> Some(parsed.val.url)]
         IN  Catch(tried, [css |-> None, cdn |-> cdn])

\* v2.2 utils.getCachedCSS: [css: the css or None, ls: localStorage after
\* the read]; an expired item is removed.
\* Inside its try: JSON.parse may throw and data.timestamp of null
\* throws; data.css of a number is undefined.
V2_getCachedCSS(ls, t) ==
    IF ls.cache = NoItem THEN [css |-> None, ls |-> ls]
    ELSE LET data == JSONparse(ls.cache)
             tried ==
                IF ~data.has THEN Thrown
                ELSE IF ls.cache = NumberItem THEN [css |-> None, ls |-> ls]
                ELSE IF Expired("v2.2", t, data.val.timestamp)
                     THEN [css |-> None, ls |-> [ls EXCEPT !.cache = NoItem]]
                ELSE [css |-> Some(data.val.css), ls |-> ls]
         IN  Catch(tried, [css |-> None, ls |-> ls])

\* The object each script writes.  v3.0 and v2.2 record the configured
\* styleURL whatever source delivered the css; v4.0 records the cdnURL passed.
cacheData(v, css, url, t) ==
    [css |-> css, timestamp |-> t,
     url |-> IF v = "v4.0" THEN url ELSE styleURL(v),
     version |-> siteVersion(v)]

setCachedCSS_NoWrite(v, ls, gm, grants, css, url, t, storageOK) == [ls |-> ls, gm |-> gm]

setCachedCSS_FailureClears(v, ls, gm, grants, css, url, t, storageOK) ==
    IF ~storageOK
    THEN [ls |-> [ls EXCEPT !.cache = NoItem], gm |-> [gm EXCEPT !.cache = None]]
    ELSE IF v = "v3.0" /\ grants
         THEN [ls |-> ls, gm |-> [gm EXCEPT !.cache = Some(cacheData(v, css, url, t))]]
    ELSE [ls |-> [ls EXCEPT !.cache = JSONstringify(cacheData(v, css, url, t))],
          gm |-> gm]

\* v3.0 utils.setCachedCSS / utils.setValue, v4.0 utils.saveToCache and
\* v2.2 utils.setCachedCSS: the storage after the write.  storageOK is
\* FALSE when setItem / GM_setValue throws (quota), which every writer
\* catches and which leaves the storage as it was.
setCachedCSS(v, ls, gm, grants, css, url, t, storageOK) ==
    IF ~storageOK THEN [ls |-> ls, gm |-> gm]
    ELSE IF v = "v3.0" /\ grants
         THEN [ls |-> ls, gm |-> [gm EXCEPT !.cache = Some(cacheData(v, css, url, t))]]
    ELSE [ls |-> [ls EXCEPT !.cache = JSONstringify(cacheData(v, css, url, t))],
          gm |-> gm]

\* The cache read of the installed script: [css, ls, cdn].
getCachedCSS(v, ls, gm, grants, t, cdn) ==
    IF v = "v3.0" THEN [css |-> V3_getCachedCSS(ls, gm, grants, t), ls |-> ls, cdn |-> cdn]
    ELSE IF v = "v4.0" THEN
        LET r == V4_getFromCache(ls, t, cdn) IN [css |-> r.css, ls |-> ls, cdn |-> r.cdn]
    ELSE LET r == V2_getCachedCSS(ls, t) IN [css |-> r.css, ls |-> r.ls, cdn |-> cdn]



(***************************************************************************)
(* Response bodies the servers may send.                                   *)
(***************************************************************************)
CssA == <<"a", "{", "a", "a", "a", "a", "a", "a", "a", "a">>
CssB == <<"{", Quote, Backslash, "a", "a", "a", "a", "a", "a", "a", "a">>
BlankBody == <<" ", " ">>
Bodies == {CssA, CssB, BlankBody, <<>>}

(***************************************************************************)
(* The document: the elements added by the script, in document order.      *)
(* id is TRUE for an element whose id is the profile's styleID; load is    *)
(* "pending" for a link whose onload / onerror has not fired yet.          *)
(***************************************************************************)
TimerKinds == {"navReinject", "throttle"}

RemoveAt(seq, k) == SubSeq(seq, 1, k - 1) \o SubSeq(seq, k + 1, Len(seq))

WithId(d) == {k \in 1..Len(d) : d[k].id}

\* document.getElementById(styleID): the index of the first match, or 0.
getElementById(d) ==
    IF WithId(d) = {} THEN 0 ELSE CHOOSE k \in WithId(d) : \A j \in WithId(d) : k <= j

\* v4.0 styleInjector.remove.
V4_remove(d) == IF getElementById(d) = 0 THEN d ELSE RemoveAt(d, getElementById(d))

\* v4.0 styleInjector.inject: the document afterwards.
V4_inject(d, css) ==
    IF ~Truthy(css) \/ Len(trim(css.val)) = 0 THEN d
    ELSE Append(V4_remove(d), [tag |-> "style", id |-> TRUE, method |-> "berry-styler-cdn",
                               css |-> css.val, load |-> "loaded"])

(***************************************************************************)
(* The enabled flag.                                                       *)
(***************************************************************************)
BoolItem(b) == [kind |-> "bool", val |-> b]

\* v4.0 utils.getEnabled.
getEnabled(ls) == IF ls.enabled = NoItem THEN TRUE ELSE ls.enabled.val

(***************************************************************************)
(* Activations.  An activation of a pipeline function is suspended at an   *)
(* await (pc "await", "backoff", ...) or is running: a running activation  *)
(* goes on to its next await before any event, timer or user action is     *)
(* handled (Busy).                                                         *)
(***************************************************************************)
FreeFrame ==
    [pc |-> "free", from |-> "-", order |-> <<>>, idx |-> 0, css |-> None,
     exc |-> FALSE, wrote |-> "none", log |-> <<>>, retry |-> 0, delay |-> 0]

RunningPCs == {"fetchCSS", "failed", "ok", "fetched", "ready", "initRest"}

Busy == \E i \in 1..MaxCalls : calls[i].pc \in RunningPCs

FreeSlots == {i \in 1..MaxCalls : calls[i].pc = "free"}

NewCall(f) ==
    LET i == CHOOSE k \in FreeSlots : \A j \in FreeSlots : k <= j
    IN  [calls EXCEPT ![i] = f]

\* The activations that are between the first request and the return of
\* a walk over the sources.
WalkPCs == {"await", "backoff", "failed", "ok"}
Walking == {i \in 1..MaxCalls : calls[i].pc \in WalkPCs}

(***************************************************************************)
(* The attempts of a walk.  An attempt is [url, transport, timed, status,  *)
(* opaque, minTrim, shape]: timed - a timer aborts the request (for fetch: *)
(* until the headers arrive, when the code clears it); status - the code   *)
(* rejects a non-2xx answer; opaque - a no-cors response, whose body reads *)
(* as empty; minTrim - the trimmed body must be longer; shape - v4.0's     *)
(* length and brace test.                                                  *)
(***************************************************************************)
V4_methods_XhrFirst == <<"xhr", "fetch">>

\* v4.0 fetchCSS: const methods = ['fetch', 'xhr'].
V4_methods == <<"fetch", "xhr">>

getOptimizedCDNOrder_Swap(cdn) ==
    IF cdn.has /\ \E k \in 2..Len(cdnURLs) : cdnURLs[k] = cdn.val
    THEN LET k == CHOOSE j \in 2..Len(cdnURLs) : cdnURLs[j] = cdn.val
         IN  [cdnURLs EXCEPT ![1] = cdnURLs[k], ![k] = cdnURLs[1]]
    ELSE cdnURLs

\* v4.0 cssFetcher.getOptimizedCDNOrder.
getOptimizedCDNOrder(cdn) ==
    LET successIndex ==
            IF cdn.has /\ \E k \in 1..Len(cdnURLs) : cdnURLs[k] = cdn.val
            THEN CHOOSE k \in 1..Len(cdnURLs) : cdnURLs[k] = cdn.val
            ELSE 0
    IN  IF successIndex > 1
        THEN <<cdn.val>> \o RemoveAt(cdnURLs, successIndex)
        ELSE cdnURLs

V4_matrix == Len(cdnURLs) * Len(V4_methods)

\* The idx-th attempt of v4.0 fetchCSS: passes, then URLs, then methods.
V4_attempt(order, idx) ==
    LET k == (idx - 1) % V4_matrix
    IN  [url |-> order[(k \div Len(V4_methods)) + 1],
         transport |-> V4_methods[(k % Len(V4_methods)) + 1],
         timed |-> TRUE, status |-> TRUE, opaque |-> FALSE, minTrim |-> 0,
         shape |-> TRUE]

V4_attempts_OnePass == V4_matrix

\* v4.0 fetchCSS: the attempts of a walk in which every attempt fails.
V4_attempts == MAX_RETRIES_V4 * V4_matrix

\* v2.2 utils.fetchCSS: the urls array.
V2_urls(berry) ==
    <<styleURL("v2.2"), fallbackURL("v2.2")>>
        \o (IF berry THEN <<"allorigins", "corsproxy">> ELSE <<>>)

\* The idx-th attempt of v2.2 utils.fetchCSS: a plain fetch, no timer.
V2_attempt(berry, idx) ==
    [url |-> V2_urls(berry)[idx], transport |-> "fetch", timed |-> FALSE,
     status |-> TRUE, opaque |-> FALSE, minTrim |-> 0, shape |-> FALSE]

\* SITES[...].berryFallbackCSS of v2.2: only the ChatGPT profile has one.
berryFallbackCSS(s) ==
    IF s = "chatgpt" THEN Some(<<"a", " ", "{", " ", "a", " ", "}">>) ELSE None

Src(url, transport, timed, status, opaque, minTrim) ==
    [url |-> url, transport |-> transport, timed |-> timed, status |-> status,
     opaque |-> opaque, minTrim |-> minTrim, shape |-> FALSE]

\* v3.0 fetchViaGM: GM_xmlhttpRequest with timeout 15000.
V3_gm == <<Src(styleURL("v3.0"), "gm", TRUE, TRUE, FALSE, 0)>>

\* v3.0 fetchForBerryBrowser: the four strategies (cors, no-cors, cors,
\* no-cors), each with a 10 s abort timer and no status test, then the
\* GitHub URL in no-cors mode with no timer.
V3_berry ==
    <<Src(styleURL("v3.0"), "fetch", TRUE, FALSE, FALSE, BERRY_MIN_TRIM),
      Src(styleURL("v3.0"), "fetch", TRUE, FALSE, TRUE, BERRY_MIN_TRIM),
      Src(styleURL("v3.0"), "fetch", TRUE, FALSE, FALSE, BERRY_MIN_TRIM),
      Src(styleURL("v3.0"), "fetch", TRUE, FALSE, TRUE, BERRY_MIN_TRIM),
      Src(fallbackURL("v3.0"), "fetch", FALSE, FALSE, TRUE, BERRY_MIN_TRIM)>>

\* v3.0 fetchDirect and fetchGitHubFallback: a fetch with no timer.
V3_direct ==
    <<Src(styleURL("v3.0"), "fetch", FALSE, TRUE, FALSE, 0),
      Src(fallbackURL("v3.0"), "fetch", FALSE, TRUE, FALSE, 0)>>

\* v3.0 fetchViaCORSProxy: primaryProxies, then fallbackProxies, each
\* with a 15 s abort timer.
V3_proxies ==
    <<Src("corsproxy", "fetch", TRUE, TRUE, FALSE, 0),
      Src("codetabs", "fetch", TRUE, TRUE, FALSE, 0),
      Src("allorigins", "fetch", TRUE, TRUE, FALSE, 0),
      Src(styleURL("v3.0"), "fetch", TRUE, TRUE, FALSE, 0),
      Src("corsproxy-github", "fetch", TRUE, TRUE, FALSE, 0),
      Src("codetabs-github", "fetch", TRUE, TRUE, FALSE, 0),
      Src("allorigins-github", "fetch", TRUE, TRUE, FALSE, 0)>>

\* The attempts of v3.0 fetchExternalCSS, in the order it makes them.
V3_plan(grants, berry) ==
    (IF grants THEN V3_gm ELSE <<>>) \o (IF berry THEN V3_berry ELSE <<>>)
        \o V3_direct \o V3_proxies

\* The attempt an activation is at.
Attempt(f) ==
    IF variant = "v4.0" THEN V4_attempt(f.order, f.idx)
    ELSE IF variant = "v3.0" THEN V3_plan(hasGrants, isBerryBrowser)[f.idx]
    ELSE V2_attempt(isBerryBrowser, f.idx)

\* How many attempts the walk of an activation has.
Attempts(f) ==
    IF variant = "v4.0" THEN V4_attempts
    ELSE IF variant = "v3.0" THEN Len(V3_plan(hasGrants, isBerryBrowser))
    ELSE Len(V2_urls(isBerryBrowser))

Accept_NoShape(d, body) == Len(trim(body)) > d.minTrim

\* Whether the code takes a body for the stylesheet.
Accept(d, body) ==
    /\ Len(trim(body)) > d.minTrim
    /\ d.shape => (Len(body) >= MIN_CSS_LENGTH /\ includes(body, "{"))

\* A request of activation i for attempt d: armed - its abort timer is
\* set; ok - response.ok, once the headers are in.
Request(i, d) ==
    [call |-> i, d |-> d,
     phase |-> IF d.transport = "fetch" THEN "headers" ELSE "whole",
     armed |-> d.timed, ok |-> TRUE]

(***************************************************************************)
(* The network.  A request may also stay unanswered for ever.              *)
(***************************************************************************)
Fail(i) == calls' = [calls EXCEPT ![i].pc = "failed"]

\* fetch() resolves with the headers; the code clears its abort timer and
\* tests response.ok where it does.
NetHeaders ==
    /\ ~Busy
    /\ \E r \in net, ok \in BOOLEAN :
        /\ r.phase = "headers"
        /\ IF r.d.status /\ ~ok
           THEN /\ net' = net \ {r}
                /\ Fail(r.call)
           ELSE /\ net' = (net \ {r}) \cup {[r EXCEPT !.phase = "body", !.armed = FALSE,
                                                     !.ok = ok]}
                /\ UNCHANGED calls
    /\ UNCHANGED <<v3Vars, envVars, throttled, errlog, chat, objectURLs, storeVars, histVars, now, boot, cssContent, v4Vars,
                   pageVars>>

\* response.text() resolves.
NetBody ==
    /\ ~Busy
    /\ \E r \in net, sent \in Bodies :
        LET body == IF r.d.opaque THEN <<>> ELSE sent
        IN  /\ r.phase = "body"
            /\ net' = net \ {r}
            /\ calls' = [calls EXCEPT ![r.call] =
                            IF Accept(r.d, body)
                            THEN [calls[r.call] EXCEPT !.pc = "ok", !.css = Some(body)]
                            ELSE [calls[r.call] EXCEPT !.pc = "failed"]]
    /\ UNCHANGED <<v3Vars, envVars, throttled, errlog, chat, objectURLs, storeVars, histVars, now, boot, cssContent, v4Vars,
                   pageVars>>

\* XMLHttpRequest / GM_xmlhttpRequest onload.
NetLoad ==
    /\ ~Busy
    /\ \E r \in net, ok \in BOOLEAN, body \in Bodies :
        /\ r.phase = "whole"
        /\ net' = net \ {r}
        /\ calls' = [calls EXCEPT ![r.call] =
                        IF ok /\ Accept(r.d, body)
                        THEN [calls[r.call] EXCEPT !.pc = "ok", !.css = Some(body)]
                        ELSE [calls[r.call] EXCEPT !.pc = "failed"]]
    /\ UNCHANGED <<v3Vars, envVars, throttled, errlog, chat, objectURLs, storeVars, histVars, now, boot, cssContent, v4Vars,
                   pageVars>>

\* A network error or a blocked cross-origin request: fetch rejects, onerror.
NetError ==
    /\ ~Busy
    /\ \E r \in net :
        /\ net' = net \ {r}
        /\ Fail(r.call)
    /\ UNCHANGED <<v3Vars, envVars, throttled, errlog, chat, objectURLs, storeVars, histVars, now, boot, cssContent, v4Vars,
                   pageVars>>

\* The abort timer of a fetch, xhr.ontimeout, GM ontimeout.
NetTimeout ==
    /\ ~Busy
    /\ \E r \in net :
        /\ r.armed
        /\ net' = net \ {r}
        /\ Fail(r.call)
    /\ UNCHANGED <<v3Vars, envVars, throttled, errlog, chat, objectURLs, storeVars, histVars, now, boot, cssContent, v4Vars,
                   pageVars>>


(***************************************************************************)
(* v4.0 (jsDelivr CDN edition).                                            *)
(***************************************************************************)
V4 == variant = "v4.0"

\* app.init up to its first await.
V4_init ==
    /\ V4 /\ boot = "start"
    /\ isEnabled' = getEnabled(localStorage)
    /\ IF isEnabled'
       THEN /\ boot' = "init"
            /\ calls' = NewCall([FreeFrame EXCEPT !.pc = "fetchCSS", !.from = "init"])
       ELSE /\ boot' = "off"
            /\ UNCHANGED calls
    /\ UNCHANGED <<v3Vars, envVars, throttled, errlog, chat, objectURLs, storeVars, histVars, now, net, cssContent, isFetching,
                   successfulCDN, listeners, pageVars>>

\* cssFetcher.fetchCSS from its entry to its first await or return.
V4_fetchCSS(i) ==
    /\ V4 /\ calls[i].pc = "fetchCSS"
    /\ IF isFetching
       THEN /\ calls' = [calls EXCEPT ![i].pc = "fetched"]
            /\ UNCHANGED <<net, cssContent, isFetching, successfulCDN>>
       ELSE LET c == V4_getFromCache(localStorage, now, successfulCDN)
                order == getOptimizedCDNOrder(c.cdn)
            IN  /\ successfulCDN' = c.cdn
                /\ IF Truthy(c.css)
                   THEN /\ cssContent' = c.css
                        /\ isFetching' = FALSE
                        /\ calls' = [calls EXCEPT ![i].pc = "fetched", ![i].css = c.css]
                        /\ UNCHANGED net
                   ELSE /\ isFetching' = TRUE
                        /\ calls' = [calls EXCEPT ![i].pc = "await", ![i].order = order,
                                                  ![i].idx = 1]
                        /\ net' = net \cup {Request(i, V4_attempt(order, 1))}
                        /\ UNCHANGED cssContent
    /\ UNCHANGED <<v3Vars, envVars, throttled, errlog, chat, objectURLs, storeVars, histVars, now, boot, isEnabled, listeners,
                   pageVars>>

\* The pause of fetchCSS after the pass numbered retry (from 0).
V4_backoffMs(retry) == 1000 * (retry + 1)

V4_attemptFailed_NoRecord(i) ==
    /\ V4 /\ calls[i].pc = "failed"
    /\ LET f == calls[i]
       IN  IF f.idx = V4_attempts
           THEN /\ isFetching' = FALSE
                /\ calls' = [calls EXCEPT ![i] = [f EXCEPT !.pc = "fetched", !.css = None]]
                /\ UNCHANGED net
           ELSE IF f.idx % V4_matrix = 0
           THEN /\ calls' = [calls EXCEPT ![i] =
                                [f EXCEPT !.pc = "backoff",
                                          !.delay = V4_backoffMs((f.idx \div V4_matrix) - 1)]]
                /\ UNCHANGED <<net, isFetching>>
           ELSE /\ calls' = [calls EXCEPT ![i] = [f EXCEPT !.pc = "await", !.idx = @ + 1]]
                /\ net' = net \cup {Request(i, V4_attempt(f.order, f.idx + 1))}
                /\ UNCHANGED isFetching
    /\ UNCHANGED <<v3Vars, envVars, throttled, errlog, chat, objectURLs, storeVars, histVars, now, boot, cssContent, isEnabled,
                   successfulCDN, listeners, pageVars>>

\* fetchFromURL's catch and the fetchCSS loop's `continue`: the next
\* attempt, the pause between passes, or the end of the walk.
V4_attemptFailed(i) ==
    /\ V4 /\ calls[i].pc = "failed"
    /\ LET f == [calls[i] EXCEPT !.log = Append(@, [url |-> Attempt(calls[i]).url,
                                     transport |-> Attempt(calls[i]).transport,
                                     success |-> FALSE])]
       IN  IF f.idx = V4_attempts
           THEN /\ isFetching' = FALSE
                /\ calls' = [calls EXCEPT ![i] = [f EXCEPT !.pc = "fetched", !.css = None]]
                /\ UNCHANGED net
           ELSE IF f.idx % V4_matrix = 0
           THEN /\ calls' = [calls EXCEPT ![i] =
                                [f EXCEPT !.pc = "backoff",
                                          !.delay = V4_backoffMs((f.idx \div V4_matrix) - 1)]]
                /\ UNCHANGED <<net, isFetching>>
           ELSE /\ calls' = [calls EXCEPT ![i] = [f EXCEPT !.pc = "await", !.idx = @ + 1]]
                /\ net' = net \cup {Request(i, V4_attempt(f.order, f.idx + 1))}
                /\ UNCHANGED isFetching
    /\ UNCHANGED <<v3Vars, envVars, throttled, errlog, chat, objectURLs, storeVars, histVars, now, boot, cssContent, isEnabled,
                   successfulCDN, listeners, pageVars>>

\* The pause between two passes is over.
V4_backoffDone(i) ==
    /\ V4 /\ ~Busy /\ calls[i].pc = "backoff"
    /\ calls' = [calls EXCEPT ![i].pc = "await", ![i].idx = @ + 1, ![i].delay = 0]
    /\ net' = net \cup {Request(i, V4_attempt(calls[i].order, calls[i].idx + 1))}
    /\ UNCHANGED <<v3Vars, envVars, throttled, errlog, chat, objectURLs, storeVars, histVars, now, boot, cssContent, v4Vars,
                   pageVars>>

\* fetchFromURL returns { css, url }; fetchCSS saves, publishes and returns.
V4_attemptOK(i) ==
    /\ V4 /\ calls[i].pc = "ok"
    /\ \E storageOK \in BOOLEAN :
        LET d == Attempt(calls[i])
            st == setCachedCSS(variant, localStorage, gmStore, hasGrants,
                               calls[i].css.val, d.url, now, storageOK)
        IN  /\ successfulCDN' = Some(d.url)
            /\ localStorage' = st.ls
            /\ gmStore' = st.gm
            /\ cssContent' = calls[i].css
            /\ isFetching' = FALSE
            /\ calls' = [calls EXCEPT ![i].pc = "fetched",
                            ![i].wrote = IF storageOK THEN "ok" ELSE "failed",
                            ![i].log = Append(@, [url |-> d.url, transport |-> d.transport,
                                                  success |-> TRUE])]
    /\ UNCHANGED <<v3Vars, envVars, throttled, errlog, chat, objectURLs, histVars, now, boot, net, isEnabled, listeners,
                   pageVars>>

\* app.loadAndApplyCSS after fetchCSS returned, and what awaited it.
V4_loadAndApplyCSS(i) ==
    /\ V4 /\ calls[i].pc = "fetched"
    /\ LET css == calls[i].css
       IN  /\ IF Truthy(css)
              THEN /\ cssContent' = css
                   /\ IF docReady
                      THEN dom' = V4_inject(dom, css) /\ UNCHANGED listeners
                      ELSE listeners' = Append(listeners, css) /\ UNCHANGED dom
              ELSE UNCHANGED <<cssContent, dom, listeners>>
           /\ IF calls[i].from = "init"
              THEN boot' = "up" /\ controls' = TRUE
              ELSE UNCHANGED <<boot, controls>>
           /\ calls' = [calls EXCEPT ![i] = FreeFrame]
    /\ UNCHANGED <<v3Vars, envVars, throttled, errlog, chat, objectURLs, storeVars, histVars, now, net, isEnabled, isFetching,
                   successfulCDN, docReady, urlChanged, timers>>

\* app.toggle (the round button).
V4_toggle ==
    /\ V4 /\ controls /\ ~Busy
    /\ \E storageOK \in BOOLEAN :
        /\ isEnabled' = ~isEnabled
        /\ localStorage' = IF storageOK
                           THEN [localStorage EXCEPT !.enabled = BoolItem(~isEnabled)]
                           ELSE localStorage
        /\ IF ~isEnabled
           THEN IF Truthy(cssContent)
                THEN dom' = V4_inject(dom, cssContent) /\ UNCHANGED calls
                ELSE /\ FreeSlots # {}
                     /\ Len(listeners) < MaxListeners
                     /\ calls' = NewCall([FreeFrame EXCEPT !.pc = "fetchCSS",
                                                           !.from = "toggle"])
                     /\ UNCHANGED dom
           ELSE dom' = V4_remove(dom) /\ UNCHANGED calls
    /\ UNCHANGED <<v3Vars, envVars, throttled, errlog, chat, objectURLs, gmStore, histVars, now, boot, net, cssContent, isFetching,
                   successfulCDN, listeners, docReady, controls, urlChanged, timers>>

\* app.refresh (the reload button) up to its await.
V4_refresh ==
    /\ V4 /\ controls /\ ~Busy
    /\ localStorage' = [localStorage EXCEPT !.cache = NoItem]
    /\ successfulCDN' = None
    /\ cssContent' = None
    /\ dom' = V4_remove(dom)
    /\ IF isEnabled
       THEN /\ FreeSlots # {}
            /\ Len(listeners) < MaxListeners
            /\ calls' = NewCall([FreeFrame EXCEPT !.pc = "fetchCSS", !.from = "refresh"])
       ELSE UNCHANGED calls
    /\ UNCHANGED <<v3Vars, envVars, throttled, errlog, chat, objectURLs, gmStore, histVars, now, boot, net, isEnabled, isFetching,
                   listeners, docReady, controls, urlChanged, timers>>

\* The page changes location.href (single-page navigation).
Navigate ==
    /\ variant = "v4.0" /\ ~Busy /\ boot = "up" /\ ~urlChanged
    /\ urlChanged' = TRUE
    /\ UNCHANGED <<v3Vars, envVars, throttled, errlog, chat, objectURLs, storeVars, histVars, now, boot, calls, net, cssContent,
                   v4Vars, dom, docReady, controls, timers>>

\* watchNavigation has run: its setInterval(checkURL, 1000) is active, and
\* nothing ever clears it.
V4_watching == V4 /\ boot = "up"

\* watchNavigation's checkURL, every second.
V4_checkURL ==
    /\ V4_watching /\ ~Busy /\ urlChanged
    /\ urlChanged' = FALSE
    /\ IF isEnabled /\ Truthy(cssContent)
       THEN /\ timers["navReinject"] < MaxTimers
            /\ timers' = [timers EXCEPT !["navReinject"] = @ + 1]
       ELSE UNCHANGED timers
    /\ UNCHANGED <<v3Vars, envVars, throttled, errlog, chat, objectURLs, storeVars, histVars, now, boot, calls, net, cssContent,
                   v4Vars, dom, docReady, controls>>

\* The 500 ms callback checkURL scheduled.
V4_navReinject ==
    /\ V4 /\ ~Busy /\ timers["navReinject"] > 0
    /\ timers' = [timers EXCEPT !["navReinject"] = @ - 1]
    /\ dom' = IF getElementById(dom) = 0 THEN V4_inject(dom, cssContent) ELSE dom
    /\ UNCHANGED <<v3Vars, envVars, throttled, errlog, chat, objectURLs, storeVars, histVars, now, boot, calls, net, cssContent,
                   v4Vars, docReady, controls, urlChanged>>

RECURSIVE InjectAll(_, _)
InjectAll(d, ls) == IF ls = <<>> THEN d ELSE InjectAll(V4_inject(d, Head(ls)), Tail(ls))

\* The document finishes parsing: the listeners loadAndApplyCSS added run.
DOMContentLoaded ==
    /\ ~Busy /\ ~docReady
    /\ docReady' = TRUE
    /\ dom' = InjectAll(dom, listeners)
    /\ listeners' = <<>>
    /\ UNCHANGED <<v3Vars, envVars, throttled, errlog, chat, objectURLs, storeVars, histVars, now, boot, calls, net, cssContent,
                   isEnabled, isFetching, successfulCDN, controls, urlChanged, timers>>

\* The host page (a re-render of its <head>) removes an element the
\* script added.
HostRemoves ==
    /\ variant # "v3.0" /\ ~Busy
    /\ \E k \in 1..Len(dom) : dom' = RemoveAt(dom, k)
    /\ UNCHANGED <<v3Vars, envVars, throttled, errlog, chat, objectURLs, storeVars, histVars, now, boot, calls, net, cssContent,
                   v4Vars, docReady, controls, urlChanged, timers>>
(***************************************************************************)
(* v2.2 (Berry Browser Fix).                                               *)
(***************************************************************************)
V2 == variant = "v2.2"

\* v2.2 styleManager.remove: styleElement and every element the script
\* marked with data-injected-by.
V2_remove(d) == SelectSeq(d, LAMBDA e : e.method \notin {"ai-styler", "ai-styler-blob"})

\* v2.2 styleManager.injectCSS.
V2_injectCSS(d, css) ==
    Append(d, [tag |-> "style", id |-> TRUE, method |-> "ai-styler", css |-> css,
               load |-> "loaded"])

\* apply waits for the page (waitForChatGPTReady or waitForElement) while
\* its elements are not there; once they are, waitForChatGPTReady waits on
\* a timer only for ChatGPT in Berry Browser, and every other wait of
\* apply is over within the same task.
V2_readyPC ==
    IF ~pageReady THEN "poll"
    ELSE IF site = "chatgpt" /\ isBerryBrowser THEN "readyWait" ELSE "ready"

\* The wait of apply for the page ends: the elements are found, or
\* BERRY_MAX_WAIT is over, the wait gives false or null and apply goes on.
V2_waitOver(i) ==
    /\ V2 /\ ~Busy /\ calls[i].pc = "poll"
    /\ calls' = [calls EXCEPT ![i].pc =
                    IF pageReady /\ site = "chatgpt" /\ isBerryBrowser
                    THEN "readyWait" ELSE "ready"]
    /\ UNCHANGED <<v3Vars, envVars, throttled, errlog, chat, objectURLs, storeVars, histVars, now, boot, net,
                   cssContent, v4Vars, pageVars>>

\* styleManager.apply from its entry to its first await.
V2_applyStart(from) ==
    /\ FreeSlots # {}
    /\ dom' = V2_remove(dom)
    /\ calls' = NewCall([FreeFrame EXCEPT !.pc = V2_readyPC, !.from = from])

\* init: the delays before the first apply; the menu button on Berry.
V2_init ==
    /\ V2 /\ boot = "start"
    /\ boot' = "timer"
    /\ controls' = isBerryBrowser
    /\ UNCHANGED <<v3Vars, envVars, throttled, errlog, chat, objectURLs, storeVars, histVars, now, calls, net, cssContent, v4Vars,
                   dom, docReady, urlChanged, timers>>

\* The setTimeout callback of init calls styleManager.apply.
V2_initApply ==
    /\ V2 /\ boot = "timer" /\ ~Busy
    /\ boot' = "init"
    /\ V2_applyStart("init")
    /\ UNCHANGED <<v3Vars, envVars, throttled, errlog, chat, objectURLs, storeVars, histVars, now, net, cssContent, v4Vars,
                   docReady, controls, urlChanged, timers>>

\* A click on the menu button.
V2_click ==
    /\ V2 /\ controls /\ ~Busy
    /\ V2_applyStart("click")
    /\ UNCHANGED <<v3Vars, envVars, throttled, errlog, chat, objectURLs, storeVars, histVars, now, boot, net, cssContent, v4Vars,
                   docReady, controls, urlChanged, timers>>

\* The MutationObserver callback, on any change of the page's DOM.
V2_mutation ==
    /\ V2 /\ isBerryBrowser /\ boot = "up" /\ ~Busy
    /\ getElementById(dom) = 0
    /\ V2_applyStart("observer")
    /\ lastApplyRecent' = TRUE
    /\ UNCHANGED <<envVars, throttled, errlog, chat, objectURLs, storeVars, histVars, now, boot, net, cssContent, v4Vars,
                   docReady, controls, urlChanged, timers, isLoading, observer,
                   checkCount, throttleRecent, removedByHost>>

\* 500 ms have passed since the observer last started styleManager.apply.
V2_windowEnds ==
    /\ V2 /\ ~Busy /\ lastApplyRecent
    /\ lastApplyRecent' = FALSE
    /\ UNCHANGED <<envVars, throttled, errlog, chat, objectURLs, storeVars, histVars, now, boot, calls, net, cssContent,
                   v4Vars, pageVars, isLoading, throttleRecent, observer, checkCount,
                   removedByHost>>

\* The wait for the page is over; utils.fetchCSS up to its first await
\* or its return.
V2_fetchCSS(i) ==
    /\ V2
    /\ calls[i].pc = "ready" \/ (calls[i].pc = "readyWait" /\ ~Busy)
    /\ LET c == V2_getCachedCSS(localStorage, now)
       IN  /\ localStorage' = c.ls
           /\ IF Truthy(c.css)
              THEN /\ calls' = [calls EXCEPT ![i].pc = "fetched", ![i].css = c.css]
                   /\ UNCHANGED net
              ELSE /\ calls' = [calls EXCEPT ![i].pc = "await", ![i].idx = 1]
                   /\ net' = net \cup {Request(i, V2_attempt(isBerryBrowser, 1))}
    /\ UNCHANGED <<v3Vars, envVars, throttled, errlog, chat, objectURLs, gmStore, histVars, now, boot, cssContent, v4Vars,
                   pageVars>>

V2_attemptFailed_EarlyFallback(i) ==
    /\ V2 /\ calls[i].pc = "failed"
    /\ LET f == [calls[i] EXCEPT !.log = Append(@, [url |-> Attempt(calls[i]).url,
                                     transport |-> Attempt(calls[i]).transport,
                                     success |-> FALSE])]
       IN  calls' = [calls EXCEPT ![i] =
                        IF Truthy(berryFallbackCSS(site))
                        THEN [f EXCEPT !.pc = "fetched", !.css = berryFallbackCSS(site)]
                        ELSE [f EXCEPT !.pc = "fetched", !.css = None, !.exc = TRUE]]
    /\ UNCHANGED <<v3Vars, envVars, throttled, errlog, chat, objectURLs, storeVars, histVars, now, boot, net, cssContent,
                   v4Vars, pageVars>>

\* The catch in the loop of utils.fetchCSS, or a blank body: the next
\* URL, or after the last one the built-in fallback CSS or the throw.
V2_attemptFailed(i) ==
    /\ V2 /\ calls[i].pc = "failed"
    /\ LET f == [calls[i] EXCEPT !.log = Append(@, [url |-> Attempt(calls[i]).url,
                                     transport |-> Attempt(calls[i]).transport,
                                     success |-> FALSE])]
       IN  IF f.idx < Attempts(f)
           THEN /\ calls' = [calls EXCEPT ![i] = [f EXCEPT !.pc = "await", !.idx = @ + 1]]
                /\ net' = net \cup {Request(i, V2_attempt(isBerryBrowser, f.idx + 1))}
           ELSE /\ calls' = [calls EXCEPT ![i] =
                        IF Truthy(berryFallbackCSS(site))
                        THEN [f EXCEPT !.pc = "fetched", !.css = berryFallbackCSS(site)]
                        ELSE [f EXCEPT !.pc = "fetched", !.css = None, !.exc = TRUE]]
                /\ UNCHANGED net
    /\ UNCHANGED <<v3Vars, envVars, throttled, errlog, chat, objectURLs, storeVars, histVars, now, boot, cssContent, v4Vars,
                   pageVars>>

\* A non-blank body: utils.fetchCSS caches and returns it.
V2_attemptOK(i) ==
    /\ V2 /\ calls[i].pc = "ok"
    /\ \E storageOK \in BOOLEAN :
        LET d == Attempt(calls[i])
            st == setCachedCSS(variant, localStorage, gmStore, hasGrants,
                               calls[i].css.val, d.url, now, storageOK)
        IN  /\ localStorage' = st.ls
            /\ gmStore' = st.gm
            /\ calls' = [calls EXCEPT ![i].pc = "fetched",
                            ![i].wrote = IF storageOK THEN "ok" ELSE "failed",
                            ![i].log = Append(@, [url |-> d.url, transport |-> d.transport,
                                                  success |-> TRUE])]
    /\ UNCHANGED <<v3Vars, envVars, throttled, errlog, chat, objectURLs, histVars, now, boot, net, cssContent, v4Vars, pageVars>>

\* What styleManager.apply returns once utils.fetchCSS has settled: both
\* a rejection and an empty content are caught and give false.
V2_applyReturn(f) ==
    IF f.exc THEN "false"
    ELSE IF ~Truthy(f.css) \/ Len(trim(f.css.val)) = 0 THEN "false"
    ELSE "true"

\* styleManager.apply after utils.fetchCSS, and what awaited it.
V2_applyEnd(i) ==
    /\ V2 /\ calls[i].pc = "fetched"
    /\ LET f == calls[i]
       IN  /\ dom' = IF f.exc /\ isBerryBrowser /\ site = "chatgpt"
                          /\ Truthy(berryFallbackCSS(site))
                     THEN Append(dom, [tag |-> "style", id |-> FALSE, method |-> "fallback",
                                       css |-> berryFallbackCSS(site).val,
                                       load |-> "loaded"])
                     ELSE IF V2_applyReturn(f) = "true"
                     THEN V2_injectCSS(dom, f.css.val)
                     ELSE dom
           /\ boot' = IF f.from = "init" THEN "up" ELSE boot
           /\ calls' = [calls EXCEPT ![i] =
                           IF V2_applyReturn(f) = "uncaught"
                           THEN [FreeFrame EXCEPT !.pc = "uncaught"]
                           ELSE FreeFrame]
    /\ UNCHANGED <<v3Vars, envVars, throttled, errlog, chat, objectURLs, storeVars, histVars, now, net, cssContent, v4Vars,
                   docReady, controls, urlChanged, timers>>

(***************************************************************************)
(* v3.0 (jsDelivr).                                                        *)
(***************************************************************************)
V3 == variant = "v3.0"

\* utils.getCurrentSiteEnabled: getValue(enabledKey, true).
getCurrentSiteEnabled ==
    IF hasGrants
    THEN (IF gmStore.enabled.has THEN gmStore.enabled.val ELSE TRUE)
    ELSE (IF localStorage.enabled = NoItem THEN TRUE ELSE localStorage.enabled.val)

\* SITES[...].aggressiveReapply and needsReadyCheck: set for ChatGPT only.
aggressiveReapply(s) == s = "chatgpt"

V3_remove_FirstOnly(d) ==
    IF getElementById(d) = 0 THEN d ELSE RemoveAt(d, getElementById(d))

\* v3.0 styleManager.remove: the element with the styleID and every
\* [data-method] element with that id.
V3_remove(d) == SelectSeq(d, LAMBDA e : ~e.id)

\* remove() revokes the object URL of the element it finds by the styleID
\* when that is a link with a blob: href.
V3_revokes(d) ==
    IF getElementById(d) # 0 /\ d[getElementById(d)].method = "blob" THEN 1 ELSE 0

\* styleManager.isApplied.
isApplied(d) == getElementById(d) # 0

\* The blob link an apply waits for.
PendingLinks(d) == {k \in 1..Len(d) : d[k].load = "pending"}

BlobLink == [tag |-> "link", id |-> TRUE, method |-> "blob", css |-> <<>>, load |-> "pending"]

\* The link injectViaExternalLink appends: href is the styleURL.
ExternalLink ==
    [tag |-> "link", id |-> TRUE, method |-> "external", css |-> <<>>, load |-> "pending"]

\* The technique a suspended apply waits for: the data-method of its link.
WaitsFor(pc) == IF pc = "blob" THEN "blob" ELSE IF pc = "external" THEN "external" ELSE "none"

\* The activation of apply that waits for the link e, or 0.
Waiter(e) ==
    IF \E i \in 1..MaxCalls : WaitsFor(calls[i].pc) = e.method /\ e.method # "none"
    THEN CHOOSE i \in 1..MaxCalls : WaitsFor(calls[i].pc) = e.method
    ELSE 0

\* injectViaStyle.
V3_injectViaStyle(d) ==
    Append(d, [tag |-> "style", id |-> TRUE, method |-> "inline", css |-> <<>>,
               load |-> "loaded"])

V3_applyRejects_NoInFlight(enabled) == ~enabled \/ lastApplyRecent

\* The guards at the head of styleManager.apply.
V3_applyRejects(enabled) == ~enabled \/ isLoading \/ lastApplyRecent

\* SITES[...].needsReadyCheck.
needsReadyCheck(s) == s = "chatgpt"

\* waitForPageReady polls for the readySelector while it matches nothing;
\* once it matches, it waits on a timer only for ChatGPT in Berry Browser.
V3_readyPC ==
    IF needsReadyCheck(site) /\ ~pageReady THEN "poll"
    ELSE IF site = "chatgpt" /\ isBerryBrowser THEN "readyWait" ELSE "ready"

\* The loop of waitForElement ends: the element is found, or 10000 ms
\* are over, waitForPageReady gives false and apply goes on.
V3_waitOver(i) ==
    /\ V3 /\ ~Busy /\ calls[i].pc = "poll"
    /\ calls' = [calls EXCEPT ![i].pc =
                    IF pageReady /\ site = "chatgpt" /\ isBerryBrowser
                    THEN "readyWait" ELSE "ready"]
    /\ UNCHANGED <<v3Vars, envVars, throttled, errlog, chat, objectURLs, storeVars, histVars, now, boot, net,
                   cssContent, v4Vars, pageVars>>

\* What the activation is once styleManager.apply has returned: the
\* retry loop of applyWithRetry goes on, any other caller is finished.
\* While the loop waits for its next round, exc tells that the round
\* before ended in the catch of apply with the error of fetchExternalCSS.
V3_returned(f, result) ==
    IF f.from # "init" THEN FreeFrame
    ELSE IF result \/ f.retry >= V3Retries
    THEN [FreeFrame EXCEPT !.pc = "initRest", !.from = "init"]
    ELSE [FreeFrame EXCEPT !.pc = "retryWait", !.from = "init", !.retry = f.retry,
                           !.exc = f.exc]

\* styleManager.apply on the document d with n object URLs, called by a
\* caller that does not wait for it, up to its first await.
V3_apply(from, d, n, enabled) ==
    IF V3_applyRejects(enabled)
    THEN /\ dom' = d
         /\ objectURLs' = n
         /\ UNCHANGED <<calls, isLoading, lastApplyRecent>>
    ELSE /\ FreeSlots # {}
         /\ lastApplyRecent' = TRUE
         /\ dom' = V3_remove(d)
         /\ objectURLs' = n - V3_revokes(d)
         /\ isLoading' = TRUE
         /\ calls' = NewCall([FreeFrame EXCEPT !.pc = V3_readyPC, !.from = from])

\* styleManager.forceReapply on the document d with n object URLs.
V3_forceReapply(from, d, n) ==
    IF getCurrentSiteEnabled /\ ~isApplied(d)
    THEN V3_apply(from, d, n, getCurrentSiteEnabled)
    ELSE /\ dom' = d
         /\ objectURLs' = n
         /\ UNCHANGED <<calls, isLoading, lastApplyRecent>>

\* observerManager.setup: the observer afterwards.
V3_setup(enabled) ==
    IF ~enabled THEN "none"
    ELSE IF aggressiveReapply(site) \/ isBerryBrowser THEN "aggressive"
    ELSE "standard"

\* app.init: the initial delay is set.
V3_init ==
    /\ V3 /\ boot = "start"
    /\ boot' = "timer"
    /\ UNCHANGED <<v3Vars, envVars, throttled, errlog, chat, objectURLs, storeVars, histVars, now, calls, net, cssContent,
                   v4Vars, pageVars>>

\* One round of the loop of applyWithRetry: styleManager.apply up to its
\* first await, or its refusal.
V3_applyAttempt(i, f) ==
    IF V3_applyRejects(getCurrentSiteEnabled)
    THEN /\ calls' = [calls EXCEPT ![i] = V3_returned([f EXCEPT !.exc = FALSE], FALSE)]
         /\ UNCHANGED <<dom, objectURLs, isLoading, lastApplyRecent>>
    ELSE /\ lastApplyRecent' = TRUE
         /\ dom' = V3_remove(dom)
         /\ objectURLs' = objectURLs - V3_revokes(dom)
         /\ isLoading' = TRUE
         /\ calls' = [calls EXCEPT ![i] = [f EXCEPT !.pc = V3_readyPC, !.exc = FALSE]]

\* The callback of the initial delay: applyWithRetry up to its first await.
V3_initTimer ==
    /\ V3 /\ boot = "timer" /\ ~Busy
    /\ boot' = "init"
    /\ LET i == CHOOSE k \in FreeSlots : \A j \in FreeSlots : k <= j
           f == [FreeFrame EXCEPT !.from = "init", !.retry = 1]
       IN  IF ~getCurrentSiteEnabled
           THEN /\ calls' = [calls EXCEPT ![i] = [f EXCEPT !.pc = "initRest"]]
                /\ UNCHANGED <<dom, objectURLs, isLoading, lastApplyRecent>>
           ELSE V3_applyAttempt(i, f)
    /\ UNCHANGED <<envVars, throttled, errlog, chat, storeVars, histVars, now, net, cssContent, v4Vars,
                   docReady, controls, urlChanged, timers, observer, checkCount,
                   throttleRecent, removedByHost>>

\* RETRY_DELAY is over: the next round of applyWithRetry.
V3_retry(i) ==
    /\ V3 /\ ~Busy /\ calls[i].pc = "retryWait"
    /\ V3_applyAttempt(i, [calls[i] EXCEPT !.retry = @ + 1])
    /\ UNCHANGED <<envVars, throttled, errlog, chat, storeVars, histVars, now, boot, net, cssContent, v4Vars,
                   docReady, controls, urlChanged, timers, observer, checkCount,
                   throttleRecent, removedByHost>>

\* The rest of the init callback, after applyWithRetry: the observer,
\* the menu, the navigation and event listeners.
V3_initRest(i) ==
    /\ V3 /\ calls[i].pc = "initRest"
    /\ calls' = [calls EXCEPT ![i] = FreeFrame]
    /\ observer' = V3_setup(getCurrentSiteEnabled)
    /\ checkCount' = 0
    /\ throttleRecent' = FALSE
    /\ controls' = TRUE
    /\ boot' = "up"
    /\ UNCHANGED <<envVars, throttled, errlog, chat, objectURLs, storeVars, histVars, now, net, cssContent, v4Vars, dom,
                   docReady, urlChanged, timers, isLoading, lastApplyRecent,
                   removedByHost>>

\* apply after waitForPageReady: with no content yet, fetchExternalCSS up
\* to its first await or its return from the cache.
V3_fetchExternalCSS(i) ==
    /\ V3
    /\ calls[i].pc = "ready" \/ (calls[i].pc = "readyWait" /\ ~Busy)
    /\ IF Truthy(cssContent)
       THEN /\ calls' = [calls EXCEPT ![i].pc = "fetched"]
            /\ UNCHANGED <<net, cssContent>>
       ELSE LET cachedCSS == V3_getCachedCSS(localStorage, gmStore, hasGrants, now)
            IN  IF Truthy(cachedCSS)
                THEN /\ cssContent' = cachedCSS
                     /\ calls' = [calls EXCEPT ![i].pc = "fetched", ![i].css = cachedCSS]
                     /\ UNCHANGED net
                ELSE /\ calls' = [calls EXCEPT ![i].pc = "await", ![i].idx = 1]
                     /\ net' = net \cup {Request(i, V3_plan(hasGrants, isBerryBrowser)[1])}
                     /\ UNCHANGED cssContent
    /\ UNCHANGED <<v3Vars, envVars, throttled, errlog, chat, objectURLs, storeVars, histVars, now, boot, v4Vars, pageVars>>

\* A catch of fetchExternalCSS or of a fetcher's loop, or a body too
\* short: the next attempt, or after the last the throw.
V3_attemptFailed(i) ==
    /\ V3 /\ calls[i].pc = "failed"
    /\ LET f == [calls[i] EXCEPT !.log = Append(@, [url |-> Attempt(calls[i]).url,
                                     transport |-> Attempt(calls[i]).transport,
                                     success |-> FALSE])]
       IN  IF f.idx < Attempts(f)
           THEN /\ calls' = [calls EXCEPT ![i] = [f EXCEPT !.pc = "await", !.idx = @ + 1]]
                /\ net' = net \cup
                        {Request(i, V3_plan(hasGrants, isBerryBrowser)[f.idx + 1])}
           ELSE /\ calls' = [calls EXCEPT ![i] = [f EXCEPT !.pc = "fetched", !.css = None,
                                                           !.exc = TRUE]]
                /\ UNCHANGED net
    /\ UNCHANGED <<v3Vars, envVars, throttled, errlog, chat, objectURLs, storeVars, histVars, now, boot, cssContent, v4Vars,
                   pageVars>>

\* A fetcher returned css: fetchExternalCSS caches, publishes and returns it.
V3_attemptOK(i) ==
    /\ V3 /\ calls[i].pc = "ok"
    /\ \E storageOK \in BOOLEAN :
        LET d == Attempt(calls[i])
            st == setCachedCSS(variant, localStorage, gmStore, hasGrants,
                               calls[i].css.val, d.url, now, storageOK)
        IN  /\ localStorage' = st.ls
            /\ gmStore' = st.gm
            /\ cssContent' = calls[i].css
            /\ calls' = [calls EXCEPT ![i].pc = "fetched",
                            ![i].wrote = IF storageOK THEN "ok" ELSE "failed",
                            ![i].log = Append(@, [url |-> d.url, transport |-> d.transport,
                                                  success |-> TRUE])]
    /\ UNCHANGED <<v3Vars, envVars, throttled, errlog, chat, objectURLs, histVars, now, boot, net, v4Vars, pageVars>>

V3_caught_NoCatch(f) == IF f.exc THEN "uncaught" ELSE "false"

\* The catch of styleManager.apply: any error gives false.
V3_caught(f) == "false"

\* apply after the content is there or the fetch has thrown: the catch,
\* or injectViaBlob up to its await.
V3_inject(i) ==
    /\ V3 /\ calls[i].pc = "fetched"
    /\ IF calls[i].exc \/ ~Truthy(cssContent) \/ Len(trim(cssContent.val)) = 0
       THEN /\ isLoading' = FALSE
            /\ calls' = [calls EXCEPT ![i] =
                            IF V3_caught(calls[i]) = "uncaught"
                            THEN [FreeFrame EXCEPT !.pc = "uncaught"]
                            ELSE V3_returned(calls[i], FALSE)]
            /\ UNCHANGED <<dom, removedByHost, objectURLs>>
       ELSE /\ objectURLs < MaxURLs
            /\ objectURLs' = objectURLs + 1
            /\ dom' = Append(dom, BlobLink)
            /\ calls' = [calls EXCEPT ![i].pc = "blob"]
            /\ removedByHost' = FALSE
            /\ UNCHANGED isLoading
    /\ UNCHANGED <<envVars, throttled, errlog, chat, storeVars, histVars, now, boot, net, cssContent, v4Vars,
                   docReady, controls, urlChanged, timers, lastApplyRecent, observer,
                   checkCount, throttleRecent>>

\* A link of injectViaBlob or injectViaExternalLink loads.  If apply still
\* waits for it, apply returns true.
V3_linkLoads ==
    /\ V3 /\ ~Busy
    /\ \E k \in PendingLinks(dom) :
        /\ dom' = [dom EXCEPT ![k].load = "loaded"]
        /\ IF Waiter(dom[k]) # 0
           THEN LET i == Waiter(dom[k])
                IN  /\ isLoading' = FALSE
                    /\ calls' = [calls EXCEPT ![i] = V3_returned(calls[i], TRUE)]
                    /\ removedByHost' = FALSE
           ELSE UNCHANGED <<isLoading, calls, removedByHost>>
    /\ UNCHANGED <<envVars, throttled, errlog, chat, objectURLs, storeVars, histVars, now, boot, net, cssContent, v4Vars,
                   docReady, controls, urlChanged, timers, lastApplyRecent, observer,
                   checkCount, throttleRecent>>

\* The rest of apply once injectViaBlob gave false: injectViaStyle
\* succeeds and apply returns true, or its appendChild throws and
\* injectViaExternalLink runs up to its await.
V3_styleFallback(i, d) ==
    /\ removedByHost' = FALSE
    /\  IF ~appendThrows
        THEN /\ dom' = V3_injectViaStyle(d)
             /\ isLoading' = FALSE
             /\ calls' = [calls EXCEPT ![i] = V3_returned(calls[i], TRUE)]
        ELSE /\ dom' = Append(d, ExternalLink)
             /\ calls' = [calls EXCEPT ![i].pc = "external"]
             /\ UNCHANGED isLoading

\* The end of apply once every technique gave false: the throw, the
\* catch, false.
V3_allFailed(i) ==
    /\ isLoading' = FALSE
    /\ calls' = [calls EXCEPT ![i] = V3_returned(calls[i], FALSE)]

\* The 3000 ms timer of injectViaExternalLink fires first: the promise
\* gives false and the link stays in the document.
V3_externalTimeout(i) ==
    /\ V3 /\ ~Busy /\ calls[i].pc = "external"
    /\ V3_allFailed(i)
    /\ UNCHANGED <<envVars, throttled, errlog, chat, objectURLs, storeVars, histVars, now, boot, net, cssContent, v4Vars,
                   pageVars, lastApplyRecent, observer, checkCount, throttleRecent,
                   removedByHost>>

\* The 1000 ms timer of injectViaBlob fires first: link.sheet is not
\* there, the promise gives false and the link stays in the document.
V3_blobTimeout(i) ==
    /\ V3 /\ ~Busy /\ calls[i].pc = "blob"
    /\ V3_styleFallback(i, dom)
    /\ UNCHANGED <<envVars, throttled, errlog, chat, objectURLs, storeVars, histVars, now, boot, net, cssContent, v4Vars,
                   docReady, controls, urlChanged, timers, lastApplyRecent, observer,
                   checkCount, throttleRecent>>

\* throttledReapply, called by the standard observer when a node with the
\* styleID left the head, d being the document and n the number of object
\* URLs then: forceReapply now, or
\* a timer for it.
V3_throttledReapply(d, n) ==
    IF ~throttleRecent
    THEN /\ throttleRecent' = TRUE
         /\ timers' = [timers EXCEPT !["throttle"] = 0]
         /\ V3_forceReapply("observer", d, n)
    ELSE /\ timers' = [timers EXCEPT !["throttle"] = 1]
         /\ dom' = d
         /\ objectURLs' = n
         /\ UNCHANGED <<throttleRecent, calls, isLoading, lastApplyRecent>>

\* A link fails to load (a content security policy that forbids its
\* URL): onerror removes the link, the standard observer is told, and an
\* apply that waits for the link goes on: to injectViaStyle after the blob
\* link, to its end after the external link.
V3_linkErrors ==
    /\ V3 /\ ~Busy
    /\ \E k \in PendingLinks(dom) :
        IF Waiter(dom[k]) # 0
        THEN /\ IF dom[k].method = "blob"
                THEN /\ V3_styleFallback(Waiter(dom[k]), RemoveAt(dom, k))
                     /\ objectURLs' = objectURLs - 1
                ELSE /\ dom' = RemoveAt(dom, k)
                     /\ V3_allFailed(Waiter(dom[k]))
                     /\ UNCHANGED <<removedByHost, objectURLs>>
             /\ UNCHANGED lastApplyRecent
             /\ IF observer # "standard" THEN UNCHANGED <<throttleRecent, timers>>
                ELSE IF ~throttleRecent
                THEN /\ throttleRecent' = TRUE
                     /\ timers' = [timers EXCEPT !["throttle"] = 0]
                ELSE /\ timers' = [timers EXCEPT !["throttle"] = 1]
                     /\ UNCHANGED throttleRecent
        ELSE LET n == IF dom[k].method = "blob" THEN objectURLs - 1 ELSE objectURLs
             IN  /\ UNCHANGED removedByHost
                 /\ IF observer = "standard"
                    THEN V3_throttledReapply(RemoveAt(dom, k), n)
                    ELSE /\ dom' = RemoveAt(dom, k)
                         /\ objectURLs' = n
                         /\ UNCHANGED <<throttleRecent, timers, calls, isLoading,
                                        lastApplyRecent>>
    /\ UNCHANGED <<envVars, throttled, errlog, chat, storeVars, histVars, now, boot, net, cssContent, v4Vars,
                   docReady, controls, urlChanged, observer, checkCount>>

\* The host page removes an element the script added; the standard
\* observer is told.
V3_hostRemoves ==
    /\ V3 /\ ~Busy
    /\ \E k \in 1..Len(dom) :
        LET d == RemoveAt(dom, k)
        IN  /\ removedByHost' =
                    (/\ ~isApplied(d)
                     /\ \/ removedByHost
                        \/ dom[k].id /\ getCurrentSiteEnabled /\ Truthy(cssContent))
            /\ IF observer = "standard" /\ dom[k].id
               THEN V3_throttledReapply(d, objectURLs)
               ELSE /\ dom' = d
                    /\ UNCHANGED <<throttleRecent, timers, calls, isLoading,
                                   lastApplyRecent, objectURLs>>
    /\ UNCHANGED <<envVars, throttled, errlog, chat, storeVars, histVars, now, boot, net, cssContent, v4Vars,
                   docReady, controls, urlChanged, observer, checkCount>>

\* The timer throttledReapply set.
V3_throttleTimer ==
    /\ V3 /\ ~Busy /\ timers["throttle"] > 0
    /\ timers' = [timers EXCEPT !["throttle"] = 0]
    /\ throttleRecent' = TRUE
    /\ V3_forceReapply("observer", dom, objectURLs)
    /\ UNCHANGED <<envVars, throttled, errlog, chat, storeVars, histVars, now, boot, net, cssContent, v4Vars,
                   docReady, controls, urlChanged, observer, checkCount, removedByHost>>

\* The timer callback of a visibilitychange or focus listener (200 ms),
\* of handleURLChange (300 ms) or of menuManager.clearCache (500 ms):
\* styleManager.forceReapply.
V3_eventReapply ==
    /\ V3 /\ ~Busy /\ boot = "up"
    /\ V3_forceReapply("event", dom, objectURLs)
    /\ UNCHANGED <<envVars, throttled, errlog, chat, storeVars, histVars, now, boot, net, cssContent, v4Vars,
                   docReady, controls, urlChanged, timers, observer, checkCount,
                   throttleRecent, removedByHost>>

\* More than OBSERVER_THROTTLE has passed since throttledReapply last ran.
V3_throttleWindowEnds ==
    /\ V3 /\ ~Busy /\ throttleRecent
    /\ throttleRecent' = FALSE
    /\ UNCHANGED <<envVars, throttled, errlog, chat, objectURLs, storeVars, histVars, now, boot, calls, net, cssContent,
                   v4Vars, pageVars, isLoading, lastApplyRecent, observer, checkCount,
                   removedByHost>>

\* 500 ms have passed since state.lastApplyTime.
V3_applyWindowEnds ==
    /\ V3 /\ ~Busy /\ lastApplyRecent
    /\ lastApplyRecent' = FALSE
    /\ UNCHANGED <<envVars, throttled, errlog, chat, objectURLs, storeVars, histVars, now, boot, calls, net, cssContent,
                   v4Vars, pageVars, isLoading, throttleRecent, observer, checkCount,
                   removedByHost>>

V3_checksOver_Never(n) == FALSE

\* checkAndReapply: checkCount++ > maxChecks, on the count before the
\* increment.
V3_checksOver(n) == n > V3Checks

\* checkAndReapply, every 2 s while the aggressive observer runs.
V3_checkAndReapply ==
    /\ V3 /\ ~Busy /\ observer = "aggressive"
    /\ IF V3_checksOver(checkCount)
       THEN /\ observer' = "stopped"
            /\ UNCHANGED <<checkCount, dom, calls, isLoading, lastApplyRecent, objectURLs>>
       ELSE /\ checkCount' = checkCount + 1
            /\ V3_forceReapply("observer", dom, objectURLs)
            /\ UNCHANGED observer
    /\ UNCHANGED <<envVars, throttled, errlog, chat, storeVars, histVars, now, boot, net, cssContent, v4Vars,
                   docReady, controls, urlChanged, timers, throttleRecent,
                   removedByHost>>

\* menuManager.toggleCurrentSiteStyles (menu command or floating button).
V3_toggle ==
    /\ V3 /\ controls /\ ~Busy
    /\ \E storageOK \in BOOLEAN :
        LET newEnabled == ~getCurrentSiteEnabled
            enabled == IF storageOK THEN newEnabled ELSE getCurrentSiteEnabled
        IN  /\ IF storageOK /\ hasGrants
               THEN /\ gmStore' = [gmStore EXCEPT !.enabled = Some(newEnabled)]
                    /\ UNCHANGED localStorage
               ELSE IF storageOK
               THEN /\ localStorage' = [localStorage EXCEPT !.enabled = BoolItem(newEnabled)]
                    /\ UNCHANGED gmStore
               ELSE UNCHANGED <<localStorage, gmStore>>
            /\ IF newEnabled
               THEN /\ V3_apply("toggle", dom, objectURLs, enabled)
                    /\ observer' = V3_setup(enabled)
                    /\ UNCHANGED removedByHost
               ELSE /\ dom' = V3_remove(dom)
                    /\ objectURLs' = objectURLs - V3_revokes(dom)
                    /\ observer' = "none"
                    /\ removedByHost' = FALSE
                    /\ UNCHANGED <<calls, isLoading, lastApplyRecent>>
            /\ checkCount' = 0
            /\ throttleRecent' = FALSE
    /\ UNCHANGED <<envVars, throttled, errlog, chat, histVars, now, boot, net, cssContent, v4Vars, docReady,
                   controls, urlChanged, timers>>

\* menuManager.clearCache (the Clear Cache menu command, registered in
\* Berry Browser when GM_registerMenuCommand exists): utils.clearCache
\* removes the localStorage keys; if enabled, the content is dropped and
\* forceReapply is set for 500 ms later (V3_eventReapply).  The command
\* is followed when no activation is alive.
V3_clearCache ==
    /\ V3 /\ controls /\ isBerryBrowser /\ hasGrants
    /\ FreeSlots = 1..MaxCalls
    /\ localStorage' = [localStorage EXCEPT !.cache = NoItem]
    /\ cssContent' = IF getCurrentSiteEnabled THEN None ELSE cssContent
    /\ UNCHANGED <<v3Vars, envVars, throttled, errlog, chat, objectURLs, gmStore, histVars, now, boot, calls, net, v4Vars,
                   pageVars>>

V3_Next ==
    \/ V3_init
    \/ V3_initTimer
    \/ \E i \in 1..MaxCalls :
        \/ V3_retry(i)
        \/ V3_initRest(i)
        \/ V3_fetchExternalCSS(i)
        \/ V3_attemptFailed(i)
        \/ V3_attemptOK(i)
        \/ V3_inject(i)
        \/ V3_blobTimeout(i)
    \/ V3_linkLoads
    \/ V3_linkErrors
    \/ V3_hostRemoves
    \/ V3_throttleTimer
    \/ V3_eventReapply
    \/ V3_clearCache
    \/ V3_throttleWindowEnds
    \/ V3_applyWindowEnds
    \/ V3_checkAndReapply
    \/ V3_toggle

(***************************************************************************)
(* The cache exercised on its own: writes of every content string, reads,  *)
(* the clock, and items left in the storage by an earlier session or an    *)
(* earlier configuration of the script.                                    *)
(***************************************************************************)
\* What the writer may be handed as the delivering URL.
WriteURLs(v) ==
    IF v = "v4.0" THEN {cdnURLs[1], cdnURLs[3]} ELSE {styleURL(v)}

\* The parsed object the reader of the installed script will look at.
StoredEntry ==
    IF variant = "v3.0" /\ hasGrants THEN gmStore.cache
    ELSE IF localStorage.cache \in {NoItem, NullItem, NumberItem} THEN None
    ELSE Catch(JSONparse(localStorage.cache), None)

\* The collapse/expand script is not installed.
NoChat == [msgs |-> <<>>, store |-> <<>>, op |-> "none", at |-> 0]

\* No error has been logged to localStorage.
NoErrors == [keys |-> {}, stored |-> {}]

InitStorage ==
    /\ now = 0
    /\ localStorage = [cache |-> NoItem, enabled |-> NoItem]
    /\ gmStore = [cache |-> None, enabled |-> None]
    /\ lastWrite = None
    /\ lastRead = None

\* The page and the script's state when it starts, state.successfulCDN
\* apart.
InitDocument ==
    /\ boot = "start"
    /\ calls = [i \in 1..MaxCalls |-> FreeFrame]
    /\ net = {}
    /\ dom = <<>>
    /\ docReady \in (IF variant = "v4.0" THEN BOOLEAN ELSE {TRUE})
    /\ cssContent = None
    /\ isEnabled = TRUE
    /\ isFetching = FALSE
    /\ listeners = <<>>
    /\ controls = FALSE
    /\ urlChanged = FALSE
    /\ timers = [k \in TimerKinds |-> 0]
    /\ isLoading = FALSE
    /\ lastApplyRecent = FALSE
    /\ observer = "none"
    /\ checkCount = 0
    /\ throttleRecent = FALSE
    /\ removedByHost = FALSE
    /\ objectURLs = 0
    /\ throttled = [lastExecTime |-> 0, timer |-> None, execAt |-> None, arg |-> None,
                    called |-> None]

\* The page as the script finds it when it starts.
InitPage ==
    /\ successfulCDN = None
    /\ InitDocument

InitEnv ==
    /\ variant \in Variants
    /\ hasGrants \in (IF variant = "v3.0" THEN BOOLEAN ELSE {FALSE})
    /\ isBerryBrowser \in (IF variant = "v4.0" THEN {FALSE} ELSE BOOLEAN)
    /\ site \in (IF variant = "v4.0" THEN {"chatgpt"} ELSE {"chatgpt", "claude"})

InitCache ==
    /\ InitEnv
    /\ appendThrows = FALSE /\ errlog = NoErrors /\ chat = NoChat
    /\ pageReady = TRUE
    /\ isBerryBrowser = FALSE
    /\ site = "chatgpt"
    /\ InitStorage
    /\ InitPage
    /\ docReady

CacheWrite ==
    \E css \in CacheStrings \ {<<>>}, url \in WriteURLs(variant), storageOK \in BOOLEAN :
        LET w == setCachedCSS(variant, localStorage, gmStore, hasGrants,
                              css, url, now, storageOK)
        IN  /\ localStorage' = w.ls
            /\ gmStore' = w.gm
            /\ lastWrite' = IF storageOK
                            THEN Some([css |-> css, url |-> url, at |-> now])
                            ELSE lastWrite
            /\ lastRead' = IF storageOK THEN None ELSE lastRead
            /\ UNCHANGED <<v3Vars, envVars, throttled, errlog, chat, objectURLs, now, pipeVars, successfulCDN>>

CacheRead ==
    LET r == getCachedCSS(variant, localStorage, gmStore, hasGrants, now, successfulCDN)
    IN  /\ lastRead' = Some([entry |-> StoredEntry, at |-> now, result |-> r.css])
        /\ localStorage' = r.ls
        /\ successfulCDN' = r.cdn
        /\ UNCHANGED <<v3Vars, envVars, throttled, errlog, chat, objectURLs, gmStore, now, lastWrite, pipeVars>>

\* A source URL of an earlier configuration, no longer configured.
RetiredURL == "retired"

\* An item found in the storage that this session did not write.
CachePlant ==
    \E text \in CacheStrings \cup {NotAString}, ts \in {0, TickMs(variant)},
       url \in {styleURL(variant), fallbackURL(variant), RetiredURL},
       version \in {siteVersion(variant), "v2.9"} :
        /\ IF variant = "v3.0" /\ hasGrants
           THEN /\ JSONUnescape(text) # SyntaxError
                /\ gmStore' = [gmStore EXCEPT !.cache =
                                    Some([css |-> JSONUnescape(text), timestamp |-> ts,
                                          url |-> url, version |-> version])]
                /\ UNCHANGED localStorage
           ELSE /\ \E item \in {[kind |-> "object", css |-> text, timestamp |-> ts,
                                   url |-> url, version |-> version],
                                  NullItem, NumberItem} :
                        localStorage' = [localStorage EXCEPT !.cache = item]
                /\ UNCHANGED gmStore
        /\ now = 0 /\ localStorage.cache = NoItem /\ ~gmStore.cache.has
        /\ lastWrite' = None
        /\ lastRead' = None
        /\ UNCHANGED <<v3Vars, envVars, throttled, errlog, chat, objectURLs, now, pipeVars, successfulCDN>>

\* Time passes, in steps far longer than a run of the pipeline takes.
Tick ==
    /\ FreeSlots = 1..MaxCalls
    /\ now < MaxTicks * TickMs(variant)
    /\ now' = now + TickMs(variant)
    /\ UNCHANGED <<v3Vars, envVars, throttled, errlog, chat, objectURLs, storeVars, histVars, pipeVars, successfulCDN>>

NextCache == CacheWrite \/ CacheRead \/ CachePlant \/ Tick

SpecCache == InitCache /\ [][NextCache]_vars

(***************************************************************************)
(* The script on a page.                                                   *)
(***************************************************************************)
\* What an earlier session may have written as the delivering URL.
PriorURL(v) == IF v = "v4.0" THEN cdnURLs[3] ELSE styleURL(v)

\* The storage holds nothing, or what an earlier session of the same
\* script left there: a stylesheet cached at time 0, the styles disabled.
InitSession ==
    /\ InitEnv
    /\ InitPage
    /\ now = 0
    /\ lastWrite = None
    /\ lastRead = None
    /\ \E prior \in BOOLEAN, off \in BOOLEAN :
        LET empty == [cache |-> NoItem, enabled |-> NoItem]
            st == setCachedCSS(variant, empty, [cache |-> None, enabled |-> None],
                               hasGrants, CssA, PriorURL(variant), 0, prior)
        IN  /\ off => variant = "v4.0"
            /\ localStorage = [st.ls EXCEPT !.enabled =
                                  IF off THEN BoolItem(FALSE) ELSE NoItem]
            /\ gmStore = st.gm

Network == NetHeaders \/ NetBody \/ NetLoad \/ NetError \/ NetTimeout

V4_Next ==
    \/ V4_init
    \/ \E i \in 1..MaxCalls :
        \/ V4_fetchCSS(i)
        \/ V4_attemptFailed(i)
        \/ V4_backoffDone(i)
        \/ V4_attemptOK(i)
        \/ V4_loadAndApplyCSS(i)
    \/ V4_toggle
    \/ V4_refresh
    \/ V4_checkURL
    \/ V4_navReinject

V2_Next ==
    \/ V2_init
    \/ V2_initApply
    \/ V2_click
    \/ V2_mutation
    \/ V2_windowEnds
    \/ \E i \in 1..MaxCalls :
        \/ V2_fetchCSS(i)
        \/ V2_attemptFailed(i)
        \/ V2_attemptOK(i)
        \/ V2_applyEnd(i)

Next ==
    \/ V4_Next
    \/ V3_Next
    \/ V2_Next
    \/ Network
    \/ Navigate
    \/ DOMContentLoaded
    \/ HostRemoves
    \/ Tick

\* A page that has the elements the ready check looks for and lets the
\* script append its style elements.
Init == InitSession /\ appendThrows = FALSE /\ errlog = NoErrors /\ chat = NoChat /\ pageReady = TRUE

Spec == Init /\ [][Next]_vars

(***************************************************************************)
(* v3.0 styleManager.apply exercised on a page whose                       *)
(* document.head.appendChild throws for a style element, so that           *)
(* injectViaStyle gives false and apply goes on to injectViaExternalLink:  *)
(* the start-up, the timers of the techniques, the links' load and error   *)
(* events and the forceReapply of the event listeners.                     *)
(***************************************************************************)
InitInject == InitSession /\ variant = "v3.0" /\ appendThrows = TRUE /\ pageReady = TRUE /\ errlog = NoErrors /\ chat = NoChat

NextInject ==
    \/ V3_init
    \/ V3_initTimer
    \/ \E i \in 1..MaxCalls :
        \/ V3_retry(i)
        \/ V3_initRest(i)
        \/ V3_fetchExternalCSS(i)
        \/ V3_attemptFailed(i)
        \/ V3_attemptOK(i)
        \/ V3_inject(i)
        \/ V3_blobTimeout(i)
        \/ V3_externalTimeout(i)
    \/ V3_linkLoads
    \/ V3_linkErrors
    \/ V3_eventReapply
    \/ V3_applyWindowEnds
    \/ Network

SpecInject == InitInject /\ [][NextInject]_vars

(***************************************************************************)
(* v3.0 and v2.2 styleManager.apply exercised on a ChatGPT page that does  *)
(* not yet have the elements the ready check looks for: they may appear    *)
(* at any time, and the wait for them may run out before.                  *)
(***************************************************************************)
InitReady ==
    /\ InitSession
    /\ variant \in {"v3.0", "v2.2"}
    /\ site = "chatgpt"
    /\ appendThrows = FALSE /\ errlog = NoErrors /\ chat = NoChat
    /\ pageReady = FALSE

\* The page gets the elements the ready check looks for.
PageReady ==
    /\ ~Busy /\ ~pageReady
    /\ pageReady' = TRUE
    /\ UNCHANGED <<variant, hasGrants, isBerryBrowser, site, appendThrows, v3Vars,
                   objectURLs, throttled, errlog, chat, storeVars, histVars, now, boot, calls, net, cssContent,
                   v4Vars, pageVars>>

NextReady ==
    \/ PageReady
    \/ V3_init
    \/ V3_initTimer
    \/ V2_init
    \/ V2_initApply
    \/ \E i \in 1..MaxCalls :
        \/ V3_waitOver(i)
        \/ V3_retry(i)
        \/ V3_initRest(i)
        \/ V3_fetchExternalCSS(i)
        \/ V3_attemptFailed(i)
        \/ V3_attemptOK(i)
        \/ V3_inject(i)
        \/ V3_blobTimeout(i)
        \/ V2_waitOver(i)
        \/ V2_fetchCSS(i)
        \/ V2_attemptFailed(i)
        \/ V2_attemptOK(i)
        \/ V2_applyEnd(i)
    \/ V3_linkLoads
    \/ V3_linkErrors
    \/ V3_applyWindowEnds
    \/ Network

SpecReady == InitReady /\ [][NextReady]_vars

(***************************************************************************)
(* v3.0 utils.throttle exercised on its own: a function it returned (the   *)
(* throttledReapply of the standard observer, handleURLChange) is called   *)
(* with either of two arguments at any moment of a clock that advances by  *)
(* ThrottleStep; a pending timeout fires at the time it was set for.       *)
(***************************************************************************)
\* CONFIG.OBSERVER_THROTTLE and the delay of handleURLChange.
THROTTLE_DELAY == 500

ThrottleArgs == {"a", "b"}

\* The script has run for longer than the delay: Date.now() is far from
\* the lastExecTime = 0 of a new throttled function.
InitThrottle ==
    /\ InitEnv
    /\ variant = "v3.0" /\ hasGrants = FALSE /\ isBerryBrowser = FALSE /\ site = "claude"
    /\ appendThrows = FALSE /\ errlog = NoErrors /\ chat = NoChat /\ pageReady = TRUE
    /\ InitPage
    /\ localStorage = [cache |-> NoItem, enabled |-> NoItem]
    /\ gmStore = [cache |-> None, enabled |-> None]
    /\ lastWrite = None
    /\ lastRead = None
    /\ now = THROTTLE_DELAY + ThrottleStep

\* execute at the time `at` for the call made at currentTime with args.
Throttle_execute(t, currentTime, args, at) ==
    [t EXCEPT !.lastExecTime = currentTime, !.execAt = Some(at), !.arg = Some(args),
              !.timer = None]

\* A call of the throttled function.
Throttle_call ==
    /\ \E args \in ThrottleArgs :
        LET currentTime == now
            t == [throttled EXCEPT !.timer = None, !.called = Some(args)]
        IN  throttled' =
                IF currentTime - t.lastExecTime > THROTTLE_DELAY
                THEN Throttle_execute(t, currentTime, args, now)
                ELSE [t EXCEPT !.timer =
                         Some([at |-> now + (THROTTLE_DELAY - (currentTime - t.lastExecTime)),
                               currentTime |-> currentTime, args |-> args])]
    /\ UNCHANGED <<envVars, storeVars, histVars, now, boot, calls, net, cssContent, v4Vars,
                   pageVars, v3Vars, objectURLs, errlog, chat>>

\* The timeout of the throttled function fires: execute, with the
\* currentTime and the arguments of the call that set it.
Throttle_timer ==
    /\ throttled.timer.has /\ now >= throttled.timer.val.at
    /\ throttled' = Throttle_execute(throttled, throttled.timer.val.currentTime,
                                     throttled.timer.val.args, now)
    /\ UNCHANGED <<envVars, storeVars, histVars, now, boot, calls, net, cssContent, v4Vars,
                   pageVars, v3Vars, objectURLs, errlog, chat>>

\* Time passes, up to the time of the pending timeout.
Throttle_tick ==
    /\ now < THROTTLE_DELAY + ThrottleStep * ThrottleTicks
    /\ throttled.timer.has => now < throttled.timer.val.at
    /\ now' = now + ThrottleStep
    /\ UNCHANGED <<envVars, storeVars, histVars, boot, calls, net, cssContent, v4Vars,
                   pageVars, v3Vars, objectURLs, throttled, errlog, chat>>

NextThrottle == Throttle_call \/ Throttle_timer \/ Throttle_tick

SpecThrottle == InitThrottle /\ [][NextThrottle]_vars

(***************************************************************************)
(* v3.0 utils.log at level 'error' exercised on its own: it is called at   *)
(* any millisecond of a clock that never goes back, more than once in the  *)
(* same millisecond included, on a localStorage that holds the entries of  *)
(* earlier page loads and may refuse a write.                              *)
(***************************************************************************)
\* "Keep only last 10 errors".
ERROR_LOG_KEEP == 10

\* String(n): the decimal digits of a timestamp.
RECURSIVE Decimal(_)
Decimal(n) == IF n < 10 THEN <<n>> ELSE Append(Decimal(n \div 10), n % 10)

\* The order Array.prototype.sort gives strings: code unit by code unit, a
\* proper prefix first.
LexLess(a, b) ==
    \E k \in 1..(Len(b)) :
        /\ \A j \in 1..(k - 1) : j <= Len(a) /\ a[j] = b[j]
        /\ (k > Len(a) \/ a[k] < b[k])

\* 'ai_styler_error_' + j sorts before 'ai_styler_error_' + k.
KeyBefore(j, k) == LexLess(Decimal(j), Decimal(k))

\* keys.sort().slice(0, n)
ErrLog_oldest_Newest(keys, n) ==
    {k \in keys : Cardinality({j \in keys : KeyBefore(k, j)}) < n}

ErrLog_oldest(keys, n) ==
    {k \in keys : Cardinality({j \in keys : KeyBefore(j, k)}) < n}

\* The body handed to safeCall once setItem has stored the entry at key t.
ErrLog_persist(e, t) ==
    LET keys == e.keys \cup {t}
    IN  [keys |-> IF Cardinality(keys) > ERROR_LOG_KEEP
                  THEN keys \ ErrLog_oldest(keys, Cardinality(keys) - ERROR_LOG_KEEP)
                  ELSE keys,
         stored |-> e.stored \cup {t}]

\* The log entries earlier page loads left, the newest ones of them.
ErrLog_priors == {0, ERROR_LOG_KEEP - 1, ERROR_LOG_KEEP}

InitErrLog ==
    /\ InitEnv
    /\ variant = "v3.0" /\ hasGrants = FALSE /\ site = "claude"
    /\ appendThrows = FALSE /\ pageReady = TRUE
    /\ InitPage
    /\ localStorage = [cache |-> NoItem, enabled |-> NoItem]
    /\ gmStore = [cache |-> None, enabled |-> None]
    /\ lastWrite = None
    /\ lastRead = None
    /\ now = ErrEpoch
    /\ chat = NoChat
    /\ \E p \in ErrLog_priors :
         errlog = [keys |-> (ErrEpoch - p)..(ErrEpoch - 1),
                   stored |-> (ErrEpoch - p)..(ErrEpoch - 1)]

\* utils.log(message, 'error'); setItem may throw, and safeCall swallows it.
V3_logError ==
    /\ V3
    /\ \E storageOK \in BOOLEAN :
         errlog' = IF isBerryBrowser /\ storageOK
                   THEN ErrLog_persist(errlog, now)
                   ELSE errlog
    /\ UNCHANGED <<envVars, storeVars, histVars, now, boot, calls, net, cssContent, v4Vars,
                   pageVars, v3Vars, objectURLs, throttled, chat>>

\* A millisecond passes.
ErrLog_tick ==
    /\ now < ErrEpoch + ErrTicks
    /\ now' = now + 1
    /\ UNCHANGED <<envVars, storeVars, histVars, boot, calls, net, cssContent, v4Vars,
                   pageVars, v3Vars, objectURLs, throttled, errlog, chat>>

NextErrLog == V3_logError \/ ErrLog_tick

SpecErrLog == InitErrLog /\ [][NextErrLog]_vars

(***************************************************************************)
(* The collapse/expand script (Claude AI Collapse and Expand Messages) on  *)
(* a page of MaxMsgs matched elements with some text: an element may grow  *)
(* (a reply being streamed), the observer callback runs, the user clicks a *)
(* toggle button. localStorage may refuse a write. The stylers are not     *)
(* started.                                                                *)
(***************************************************************************)
\* processMessage leaves elements with offsetHeight below this alone.
MIN_HEIGHT == 200

Heights == {MIN_HEIGHT - HeightStep, MIN_HEIGHT, MIN_HEIGHT + HeightStep}

\* localStorage.getItem(messageId): null, or what a click or anything else
\* stored under the id.
StoredStates == {"null", "collapsed", "expanded", "other"}

\* generateMessageId: the index of the element among the matched ones and
\* the start of its text, which the model keeps fixed per element.
generateMessageId(index) == index

\* An element the observer has not seen: [height (offsetHeight before any
\* collapsing), auto (a user message holding an auto-collapse phrase),
\* collapsed (the class), processed (in processedMessages), buttons (toggle
\* buttons in its container), label (the text of the button)].
NewMessages ==
    [height : Heights, auto : BOOLEAN, collapsed : {FALSE}, processed : {FALSE},
     buttons : {0}, label : {"-"}]

createToggleButton(m) ==
    IF m.buttons > 0 THEN m
    ELSE [m EXCEPT !.buttons = @ + 1, !.label = "Collapse or Expand"]

processMessage(m, storedState) ==
    IF m.processed THEN m
    ELSE IF m.height < MIN_HEIGHT THEN m
    ELSE LET b == createToggleButton(m)
         IN  IF m.auto /\ storedState # "expanded"
             THEN [b EXCEPT !.collapsed = TRUE, !.label = "Expand", !.processed = TRUE]
             ELSE IF storedState = "collapsed"
             THEN [b EXCEPT !.collapsed = TRUE, !.label = "Expand", !.processed = TRUE]
             ELSE [b EXCEPT !.collapsed = FALSE, !.label = "Collapse", !.processed = TRUE]

InitCollapse ==
    /\ InitEnv
    /\ variant = "v3.0" /\ hasGrants = FALSE /\ isBerryBrowser = FALSE /\ site = "claude"
    /\ appendThrows = FALSE /\ pageReady = TRUE
    /\ InitPage
    /\ localStorage = [cache |-> NoItem, enabled |-> NoItem]
    /\ gmStore = [cache |-> None, enabled |-> None]
    /\ lastWrite = None
    /\ lastRead = None
    /\ now = 0
    /\ errlog = NoErrors
    /\ \E msgs \in [1..MaxMsgs -> NewMessages], store \in [1..MaxMsgs -> StoredStates] :
         chat = [msgs |-> msgs, store |-> store, op |-> "none", at |-> 0]

\* The callback of the MutationObserver (and of the 1000 ms timer):
\* processMessage for every matched element.
observeMessages ==
    /\ chat.msgs # <<>>
    /\ chat' = [chat EXCEPT
                  !.msgs = [i \in 1..MaxMsgs |->
                               processMessage(chat.msgs[i], chat.store[generateMessageId(i)])],
                  !.op = "observe", !.at = 0]
    /\ UNCHANGED <<envVars, storeVars, histVars, now, boot, calls, net, cssContent, v4Vars,
                   pageVars, v3Vars, objectURLs, throttled, errlog>>

\* The page makes an element taller.
Collapse_grows ==
    /\ \E i \in 1..Len(chat.msgs) :
         /\ chat.msgs[i].height + HeightStep \in Heights
         /\ chat' = [chat EXCEPT !.msgs[i].height = @ + HeightStep,
                                  !.op = "grow", !.at = i]
    /\ UNCHANGED <<envVars, storeVars, histVars, now, boot, calls, net, cssContent, v4Vars,
                   pageVars, v3Vars, objectURLs, throttled, errlog>>

\* The click listener of a toggle button; setItem returns or throws.
Collapse_click ==
    /\ \E i \in 1..Len(chat.msgs), storageOK \in BOOLEAN :
         LET collapsed == ~chat.msgs[i].collapsed
         IN  /\ chat.msgs[i].buttons > 0
             /\ chat' = [chat EXCEPT
                  !.msgs[i].collapsed = collapsed,
                  !.store[generateMessageId(i)] =
                      IF ~storageOK THEN @
                      ELSE IF collapsed THEN "collapsed" ELSE "expanded",
                  !.msgs[i].label =
                      IF ~storageOK THEN @
                      ELSE IF collapsed THEN "Expand" ELSE "Collapse",
                  !.op = "click", !.at = i]
    /\ UNCHANGED <<envVars, storeVars, histVars, now, boot, calls, net, cssContent, v4Vars,
                   pageVars, v3Vars, objectURLs, throttled, errlog>>

NextCollapse == observeMessages \/ Collapse_grows \/ Collapse_click

SpecCollapse == InitCollapse /\ [][NextCollapse]_vars

(***************************************************************************)
(* v4.0 fetchFromURL exercised on its own: every request is answered with  *)
(* a status and a body out of a set that has a body for each way the       *)
(* validation can fail, or with a transport error, and the answer is kept  *)
(* in lastRead.                                                            *)
(***************************************************************************)
ShortBrace == <<"a", "{", "a">>
NoBrace == <<"a", "a", "a", "a", "a", "a", "a", "a", "a", "a">>
PaddedBrace == <<" ", " ", " ", " ", " ", "{", " ", " ", " ", " ">>
Blank10 == <<" ", " ", " ", " ", " ", " ", " ", " ", " ", " ">>
FetchBodies == {CssA, CssB, ShortBrace, NoBrace, PaddedBrace, Blank10, <<>>}

Answers ==
    [ok : BOOLEAN, body : FetchBodies, error : {FALSE}]
        \cup {[ok |-> FALSE, body |-> <<>>, error |-> TRUE]}

InitFetch ==
    /\ InitEnv
    /\ appendThrows = FALSE /\ errlog = NoErrors /\ chat = NoChat
    /\ pageReady = TRUE
    /\ variant = "v4.0"
    /\ InitStorage
    /\ InitPage
    /\ docReady

\* fetchFromURL once its request is settled with the answer a.
V4_response(i) ==
    /\ V4 /\ ~Busy /\ calls[i].pc = "await"
    /\ \E r \in net, a \in Answers :
        /\ r.call = i
        /\ net' = net \ {r}
        /\ lastRead' = Some(a)
        /\ calls' = [calls EXCEPT ![i] =
                        IF ~a.error /\ a.ok /\ Accept(r.d, a.body)
                        THEN [calls[i] EXCEPT !.pc = "ok", !.css = Some(a.body)]
                        ELSE [calls[i] EXCEPT !.pc = "failed"]]
    /\ UNCHANGED <<v3Vars, envVars, throttled, errlog, chat, objectURLs, storeVars, lastWrite, now, boot, cssContent, v4Vars,
                   pageVars>>

NextFetch ==
    \/ V4_init
    \/ \E i \in 1..MaxCalls :
        \/ V4_fetchCSS(i)
        \/ V4_response(i)
        \/ V4_attemptFailed(i)
        \/ V4_backoffDone(i)
        \/ V4_attemptOK(i)
        \/ V4_loadAndApplyCSS(i)

SpecFetch == InitFetch /\ [][NextFetch]_vars

(***************************************************************************)
(* v4.0 getOptimizedCDNOrder exercised on its own: fetchCSS starts with    *)
(* state.successfulCDN holding nothing, any of the configured URLs, or a   *)
(* URL that is not configured, and an empty cache.                         *)
(***************************************************************************)
OrderInputs ==
    {None} \cup {Some(cdnURLs[k]) : k \in 1..Len(cdnURLs)} \cup {Some(RetiredURL)}

InitOrder ==
    /\ InitEnv
    /\ variant = "v4.0"
    /\ appendThrows = FALSE /\ errlog = NoErrors /\ chat = NoChat
    /\ pageReady = TRUE
    /\ InitStorage
    /\ InitDocument
    /\ docReady
    /\ successfulCDN \in OrderInputs

SpecOrder == InitOrder /\ [][NextFetch]_vars

(***************************************************************************)
(* C1  Concurrent fetch de-duplication: at any time at most one walk over  *)
(* the sources is in progress, so an invocation made while an earlier one  *)
(* still awaits the network issues no request of its own.                  *)
(***************************************************************************)
C1_SingleWalk == Cardinality(Walking) <= 1

(***************************************************************************)
(* C2  At most one injected artifact: in every reachable state the         *)
(* document holds at most one element with the profile's styleID and no    *)
(* other element left by the injector.                                     *)
(***************************************************************************)
C2_AtMostOneArtifact == Len(dom) <= 1

(***************************************************************************)
(* C3  Supervised reapplication (v3.0): while the feature is enabled, the  *)
(* content is loaded and the artifact the host page removed is not back,   *)
(* a supervisor is still at work on it: an apply is in progress, the       *)
(* observer's throttle timer is pending, or the 2 s poller is running.     *)
(***************************************************************************)
C3_SupervisedReapply ==
    (V3 /\ removedByHost /\ getCurrentSiteEnabled /\ Truthy(cssContent)
        /\ ~isApplied(dom))
    => \/ \E i \in 1..MaxCalls : calls[i].pc # "free"
       \/ timers["throttle"] > 0
       \/ observer = "aggressive"

(***************************************************************************)
(* C4  Every fetch cycle terminates: every request that awaits the         *)
(* network has a running timer that will abort it.                         *)
(***************************************************************************)
C4_AttemptsBounded == \A r \in net : r.armed

(***************************************************************************)
(* C5  Fetch exhaustion is never an uncaught error: no activation ends     *)
(* with an exception that escaped it, and a walk whose every attempt       *)
(* failed gives no content or the configured inline fallback content.      *)
(***************************************************************************)
C5_ExhaustionCaught ==
    \A i \in 1..MaxCalls :
        LET f == calls[i]
        IN  /\ f.pc # "uncaught"
            /\ (/\ f.pc = "fetched"
                /\ Len(f.log) = Attempts(f)
                /\ \A k \in 1..Len(f.log) : ~f.log[k].success)
               => f.css = (IF V2 THEN berryFallbackCSS(site) ELSE None)

\* The first round of v3.0 applyWithRetry ended in the catch of apply after
\* every source had failed, and the loop waits for its next round.
C5_Witness ==
    \E i \in 1..MaxCalls : V3 /\ calls[i].pc = "retryWait" /\ calls[i].exc

(***************************************************************************)
(* C6  Strictly sequential source order: the attempts of a walk are made   *)
(* in candidate-list order (v4.0: per URL 'fetch' then 'xhr'; v2.2:        *)
(* styleURL, backupStyleURL, then the two proxies), each after the one     *)
(* before it has failed, and a walk never has two requests outstanding.    *)
(***************************************************************************)
C6_SequentialOrder ==
    \A i \in 1..MaxCalls :
        LET f == calls[i]
            mine == {r \in net : r.call = i}
            v2urls == <<"githubraw", "jsdelivr", "allorigins", "corsproxy">>
            nth(k) ==
                IF V4 THEN [url |-> f.order[(((k - 1) % (2 * Len(f.order))) \div 2) + 1],
                            transport |-> IF k % 2 = 1 THEN "fetch" ELSE "xhr"]
                ELSE [url |-> v2urls[k], transport |-> "fetch"]
        IN  /\ Cardinality(mine) <= 1
            /\ mine # {} => f.pc = "await"
            /\ (f.pc \in WalkPCs /\ ~V3) =>
                /\ Len(f.log) = (IF f.pc = "backoff" THEN f.idx ELSE f.idx - 1)
                /\ \A k \in 1..Len(f.log) :
                    /\ ~f.log[k].success
                    /\ f.log[k].url = nth(k).url
                    /\ f.log[k].transport = nth(k).transport
                /\ \A r \in mine :
                    /\ r.d.url = nth(f.idx).url
                    /\ r.d.transport = nth(f.idx).transport

\* A v4.0 walk is in its second pass: the whole matrix and the first
\* attempt of the second pass have failed, the next request is out.
C6_Witness ==
    \E i \in 1..MaxCalls :
        /\ V4
        /\ calls[i].pc = "await"
        /\ calls[i].idx = V4_matrix + 2
        /\ \E r \in net : r.call = i

(***************************************************************************)
(* C7  First success short-circuits: once an attempt has succeeded the     *)
(* walk makes no further attempt, exactly the content of that attempt is   *)
(* returned to the caller, and it is in the persistent cache unless the    *)
(* storage refused the write.                                              *)
(***************************************************************************)
C7_FirstSuccessShortCircuits ==
    \A i \in 1..MaxCalls :
        LET f == calls[i]
        IN  (f.pc = "fetched" /\ f.log # <<>> /\ f.log[Len(f.log)].success) =>
                /\ \A k \in 1..(Len(f.log) - 1) : ~f.log[k].success
                /\ Len(f.log) = f.idx
                /\ ~\E r \in net : r.call = i
                /\ Truthy(f.css)
                /\ ~V2 => cssContent = f.css
                /\ f.wrote \in {"ok", "failed"}
                /\ f.wrote = "ok" => (StoredEntry.has /\ StoredEntry.val.css = f.css.val)

\* The claim as the specification words it: the content is in the cache
\* after every successful cycle.
C7_AlwaysCached ==
    \A i \in 1..MaxCalls :
        LET f == calls[i]
        IN  (f.pc = "fetched" /\ f.log # <<>> /\ f.log[Len(f.log)].success) =>
                (StoredEntry.has /\ StoredEntry.val.css = f.css.val)

\* A walk succeeded after a failure and with attempts left over, and the
\* cache took the content.
C7_Witness ==
    \E i \in 1..MaxCalls :
        /\ calls[i].pc = "fetched"
        /\ Len(calls[i].log) >= 2
        /\ calls[i].log[Len(calls[i].log)].success
        /\ calls[i].idx < Attempts(calls[i])
        /\ calls[i].wrote = "ok"

(***************************************************************************)
(* C8  The cache records the source that delivered the content: after a    *)
(* cycle whose first URL failed and a later URL gave the content, the      *)
(* entry the cycle wrote holds that content and that later URL.            *)
(***************************************************************************)
C8_CacheRecordsSource ==
    \A i \in 1..MaxCalls :
        LET f == calls[i]
        IN  (/\ f.pc = "fetched"
             /\ Len(f.log) >= 2
             /\ f.log[Len(f.log)].success
             /\ f.log[Len(f.log)].url # f.log[1].url
             /\ f.wrote = "ok")
            => /\ StoredEntry.has
               /\ StoredEntry.val.css = f.css.val
               /\ StoredEntry.val.url = f.log[Len(f.log)].url

(***************************************************************************)
(* C9  Cache round-trip: a successful cache write of a non-empty content   *)
(* followed by a cache read for the same profile within the TTL returns    *)
(* exactly the content written.                                            *)
(***************************************************************************)
C9_CacheRoundTrip ==
    (/\ lastWrite.has
     /\ lastRead.has
     /\ lastRead.val.at - lastWrite.val.at <= CACHE_DURATION(variant))
    => lastRead.val.result = Some(lastWrite.val.css)

\* A content holding a quote and a backslash was written and then read
\* back at the very end of its life.
C9_Witness ==
    /\ lastWrite.has
    /\ lastRead.has
    /\ lastWrite.val.css = <<Quote, Backslash>>
    /\ lastRead.val.at - lastWrite.val.at = CACHE_DURATION(variant)
    /\ lastRead.val.result = Some(lastWrite.val.css)

(***************************************************************************)
(* C10  Cache expiry: a read returns absent for every entry whose          *)
(* timestamp is more than CACHE_DURATION old, whatever its content, and    *)
(* returns the content of every otherwise valid entry that is not.         *)
(***************************************************************************)
OtherwiseValid(e) ==
    variant = "v3.0" => (e.url = styleURL(variant) /\ e.version = siteVersion(variant))

C10_CacheExpiry ==
    (lastRead.has /\ lastRead.val.entry.has) =>
        LET e == lastRead.val.entry.val
            age == lastRead.val.at - e.timestamp
        IN  /\ age > CACHE_DURATION(variant) => lastRead.val.result = None
            /\ (age <= CACHE_DURATION(variant) /\ OtherwiseValid(e))
                  => lastRead.val.result = Some(e.css)

\* A non-empty entry older than CACHE_DURATION by one tick was read and
\* gave nothing.
C10_Witness ==
    /\ lastRead.has
    /\ lastRead.val.entry.has
    /\ lastRead.val.at - lastRead.val.entry.val.timestamp = CACHE_DURATION(variant) + TickMs(variant)
    /\ lastRead.val.result = None
    /\ Len(lastRead.val.entry.val.css) > 0

(***************************************************************************)
(* C11  Fingerprint invalidation: a read of an entry whose stored source   *)
(* URL is not the configured one (v4.0: not in the candidate list), or     *)
(* whose version is not the configured one, returns absent even within     *)
(* the TTL.                                                                *)
(***************************************************************************)
C11_FingerprintInvalidation ==
    (lastRead.has /\ lastRead.val.entry.has) =>
        LET e == lastRead.val.entry.val
            urlConfigured ==
                IF V4 THEN \E k \in 1..Len(cdnURLs) : cdnURLs[k] = e.url
                ELSE e.url = styleURL(variant)
            versionConfigured == V3 => e.version = siteVersion(variant)
        IN  ~(urlConfigured /\ versionConfigured) => lastRead.val.result = None

(***************************************************************************)
(* C12  Cache read fails closed: whatever is stored under the cache key    *)
(* (nothing, text that is not JSON, JSON of the wrong shape, an expired    *)
(* or mismatching entry), the read returns absent or a content string and  *)
(* never throws.                                                           *)
(***************************************************************************)
C12_ReadFailsClosed ==
    lastRead.has =>
        \/ lastRead.val.result = None
        \/ /\ lastRead.val.result.has
           /\ \A k \in 1..Len(lastRead.val.result.val) :
                lastRead.val.result.val[k] \in Chars

C14_CacheHitFastPath ==
    [][/\ \A i \in 1..MaxCalls :
            LET e == StoredEntry.val
                valid == /\ StoredEntry.has
                         /\ now - e.timestamp <= CACHE_DURATION(variant)
                         /\ V3 => (e.url = styleURL(variant)
                                      /\ e.version = siteVersion(variant))
                starts == /\ calls[i].pc \in {"fetchCSS", "ready", "readyWait"}
                          /\ calls'[i].pc # calls[i].pc
                          /\ V3 => ~Truthy(cssContent)
            IN  (starts /\ valid) =>
                    /\ calls'[i].pc = "fetched"
                    /\ calls'[i].css = Some(e.css)
                    /\ calls'[i].log = <<>>
                    /\ net' = net
                    /\ localStorage' = localStorage
                    /\ gmStore' = gmStore
                    /\ V4 => ~isFetching'
       /\ (V3 /\ isLoading') => \E i \in 1..MaxCalls : calls'[i].pc # "free"
      ]_vars

\* A v4.0 cycle has just returned the content of the entry an earlier
\* session stored: nothing was requested and the in-flight flag is clear.
C14_Witness ==
    \E i \in 1..MaxCalls :
        /\ V4
        /\ calls[i].pc = "fetched"
        /\ calls[i].log = <<>>
        /\ StoredEntry.has
        /\ calls[i].css = Some(StoredEntry.val.css)
        /\ net = {}
        /\ ~isFetching

(***************************************************************************)
(* C15  Source promotion (v4.0): once a cycle has succeeded from a         *)
(* candidate URL other than the first, a later cycle that misses the       *)
(* cache (cleared by the refresh action, or expired) attempts that URL     *)
(* first.                                                                  *)
(***************************************************************************)
C15_SourcePromotion ==
    [][\A i \in 1..MaxCalls :
        \* The URL that last succeeded, as the script (state.successfulCDN)
        \* or else the stored entry records it.
        LET last == IF successfulCDN.has THEN successfulCDN
                    ELSE IF StoredEntry.has THEN Some(StoredEntry.val.url)
                    ELSE None
            promoted == last.has /\ last.val # cdnURLs[1]
        IN  \* a step that clears the cache and starts a cycle (the refresh
            \* action) keeps what is known of that URL
            /\ (/\ V4 /\ promoted
                /\ StoredEntry.has /\ ~StoredEntry'.has
                /\ calls[i].pc = "free" /\ calls'[i].pc = "fetchCSS")
                    => successfulCDN' = last
            \* a cycle that misses the cache attempts that URL first
            /\ (V4 /\ promoted /\ calls[i].pc = "fetchCSS" /\ calls'[i].pc = "await")
                    => \A r \in net' \ net : r.d.url = last.val
      ]_vars

(***************************************************************************)
(* C16  apply / remove / isApplied agree (v3.0): isApplied() is true       *)
(* exactly when an element with the styleID is in the document; it is true *)
(* right after apply() resolved true and false right after remove(); and   *)
(* remove() with nothing applied, or a second remove(), changes nothing    *)
(* and leaves isApplied() false.                                           *)
(***************************************************************************)
C16_ApplyRemoveAgree ==
    [][V3 =>
        /\ isApplied(dom) <=> (\E k \in 1..Len(dom) : dom[k].id)
        \* remove() on the document as it is
        /\ ~isApplied(V3_remove(dom))
        /\ V3_remove(V3_remove(dom)) = V3_remove(dom)
        /\ ~isApplied(dom) => V3_remove(dom) = dom
        \* a step in which apply() passed its guards, or the toggle switched
        \* the styles off, called remove() and added nothing after it
        /\ (~isLoading /\ isLoading') => ~isApplied(dom')
        /\ (getCurrentSiteEnabled /\ ~getCurrentSiteEnabled') => ~isApplied(dom')
        \* a step in which apply() resolved true: every way out of the wait
        \* for the blob link
        /\ \A i \in 1..MaxCalls :
            (calls[i].pc = "blob" /\ calls'[i].pc # "blob") => isApplied(dom')
      ]_vars

\* apply() resolved true for the init loop while the page held two
\* elements of the script: the styles are applied.
C16_Witness ==
    /\ V3
    /\ \E i \in 1..MaxCalls : calls[i].pc = "initRest"
    /\ ~isLoading
    /\ isApplied(dom)
    /\ Len(dom) = 2

(***************************************************************************)
(* C17  A failed fetch leaves the document untouched: where the profile    *)
(* has no built-in fallback CSS, an answer with a non-success status fails *)
(* its attempt; when every attempt has failed the walk ends without        *)
(* content; no step of the walk changes the document; and the pipeline     *)
(* then reports the failure and creates no element, so that isApplied()    *)
(* is false afterwards if no artifact was there before.                    *)
(***************************************************************************)
C17_FailedFetchUntouched ==
    [][\A i \in 1..MaxCalls :
        LET f == calls[i]
            g == calls'[i]
            noFallback == V2 => ~Truthy(berryFallbackCSS(site))
            exhausted == /\ f.pc = "fetched"
                         /\ Len(f.log) = Attempts(f)
                         /\ ~f.log[Len(f.log)].success
        IN  /\ (\E r \in net \ net' : r.call = i /\ r.phase = "body" /\ ~r.ok)
                    => g.pc = "failed"
            /\ (noFallback /\ f.pc = "failed" /\ g.pc \notin WalkPCs)
                    => (g.pc = "fetched" /\ ~Truthy(g.css))
            /\ (f.pc \in WalkPCs \ {"ok"} /\ g # f /\ g.pc # "ok")
                    => dom' = dom
            /\ (noFallback /\ exhausted /\ g # f)
                    => /\ g.pc # "uncaught"
                       /\ dom' = dom
                       /\ dom = <<>> => ~isApplied(dom')
      ]_vars

(***************************************************************************)
(* C18  Reapplication spacing: a reapplication attempt that runs the       *)
(* pipeline - v3.0 styleManager.apply passing its guards, an apply started *)
(* by the v2.2 MutationObserver - starts only when 500 ms have passed      *)
(* since the one before.                                                   *)
(***************************************************************************)
C18_ReapplySpacing ==
    [][/\ (V3 /\ ~isLoading /\ isLoading') => ~lastApplyRecent
       /\ (V2 /\ \E i \in 1..MaxCalls :
                    calls[i].pc = "free" /\ calls'[i].from = "observer")
            => ~lastApplyRecent
      ]_vars

(***************************************************************************)
(* C19  Single reapplication entry point: a reapplication triggered by     *)
(* regained visibility or focus or by a URL change reaches injection only  *)
(* through the guarded entry point.  v3.0: the trigger's callback starts   *)
(* styleManager.apply only when its guards pass and adds no element        *)
(* itself, and every element is added by an activation of apply.  v4.0:    *)
(* the callback of the navigation watcher adds no element itself.          *)
(***************************************************************************)
C19_SingleEntryPoint ==
    [][/\ (V3 /\ \E i \in 1..MaxCalls :
                    calls[i].pc = "free" /\ calls'[i].from = "event")
            => /\ ~V3_applyRejects(getCurrentSiteEnabled)
               /\ Len(dom') <= Len(dom)
       /\ (V3 /\ Len(dom') > Len(dom))
            => \E i \in 1..MaxCalls :
                    calls[i].pc \in {"fetched", "blob"} /\ calls'[i] # calls[i]
       /\ (V4 /\ timers'["navReinject"] < timers["navReinject"])
            => Len(dom') <= Len(dom)
      ]_vars

(***************************************************************************)
(* C20  Teardown releases supervision: while the feature is disabled no    *)
(* supervisor of the script is active - neither the v3.0 MutationObserver  *)
(* or 2 s poller nor the v4.0 navigation-watch interval.                   *)
(***************************************************************************)
C20_TeardownReleases ==
    /\ (V3 /\ ~getCurrentSiteEnabled) => observer \in {"none", "stopped"}
    /\ (V4 /\ ~isEnabled) => ~V4_watching

(***************************************************************************)
(* C21  Manual refresh forces a fresh fetch: when the feature is enabled   *)
(* and the user refreshes (v4.0 app.refresh) or clears the cache (v3.0     *)
(* menuManager.clearCache), the cache entry in the storage used is absent  *)
(* afterwards, the cycle refresh starts goes to the network, and while the *)
(* content is dropped no artifact with the old content is in the document. *)
(***************************************************************************)
C21_RefreshForcesFetch ==
    [][/\ \A i \in 1..MaxCalls :
            /\ (V4 /\ isEnabled /\ calls[i].pc = "free" /\ calls'[i].from = "refresh")
                    => (~StoredEntry'.has /\ ~isApplied(dom'))
            /\ (V4 /\ calls[i].from = "refresh" /\ calls[i].pc = "fetchCSS")
                    => calls'[i].pc = "await"
       /\ (V3 /\ getCurrentSiteEnabled /\ Truthy(cssContent) /\ ~Truthy(cssContent'))
            => (~StoredEntry'.has /\ ~isApplied(dom'))
       /\ (V3 /\ ~Truthy(cssContent) /\ ~Truthy(cssContent')) => ~isApplied(dom')
      ]_vars

(***************************************************************************)
(* C22  Content validation (v4.0): an attempt of fetchFromURL succeeds -   *)
(* the body is returned, success:true recorded, successfulCDN set - if and *)
(* only if the answer had a 2xx status and a body that is not blank, has   *)
(* at least 10 characters and contains "{"; every other answer is handled  *)
(* like a transport error: success:false is recorded and the walk goes on. *)
(***************************************************************************)
C22_ContentValidation ==
    [][\A i \in 1..MaxCalls :
        LET f == calls[i]
            g == calls'[i]
            a == lastRead'.val
            valid == /\ ~a.error /\ a.ok
                     /\ Len(trim(a.body)) > 0
                     /\ Len(a.body) >= 10
                     /\ includes(a.body, "{")
        IN  /\ (f.pc = "await" /\ g.pc # "await")
                    => /\ valid => (g.pc = "ok" /\ g.css = Some(a.body))
                       /\ ~valid => (g.pc = "failed" /\ g.css = f.css)
            /\ (f.pc = "ok" /\ g.pc # "ok")
                    => /\ g.log = Append(f.log, [url |-> Attempt(f).url,
                                                 transport |-> Attempt(f).transport,
                                                 success |-> TRUE])
                       /\ successfulCDN' = Some(Attempt(f).url)
                       /\ g.css = f.css
            /\ (f.pc = "failed" /\ g.pc # "failed")
                    => /\ g.log = Append(f.log, [url |-> Attempt(f).url,
                                                 transport |-> Attempt(f).transport,
                                                 success |-> FALSE])
                       /\ successfulCDN' = successfulCDN
                       /\ f.idx < V4_attempts
                            => (g.pc \in {"await", "backoff"} /\ ~Truthy(g.css))
      ]_vars

\* A 2xx answer whose body has ten characters and no brace was rejected,
\* and the walk has gone on to the next transport.
C22_Witness ==
    \E i \in 1..MaxCalls :
        /\ lastRead.has
        /\ lastRead.val.ok /\ lastRead.val.body = NoBrace
        /\ calls[i].pc = "await"
        /\ calls[i].idx = 2
        /\ calls[i].log = <<[url |-> cdnURLs[1], transport |-> "fetch", success |-> FALSE]>>

(***************************************************************************)
(* C23  The inline fallback is the last resort (v2.2): utils.fetchCSS      *)
(* returns berryFallbackCSS only when the cache missed and every candidate *)
(* URL was attempted and failed; the fallback text is never in the cache;  *)
(* and for a profile without one, fetchCSS then throws and apply returns   *)
(* false, injecting nothing.                                               *)
(***************************************************************************)
C23_FallbackLastResort ==
    [][V2 => \A i \in 1..MaxCalls :
        LET f == calls[i]
            g == calls'[i]
            fallback == berryFallbackCSS(site)
            allFailed(h) == /\ Len(h.log) = Len(V2_urls(isBerryBrowser))
                            /\ \A k \in 1..Len(h.log) :
                                /\ ~h.log[k].success
                                /\ h.log[k].url = V2_urls(isBerryBrowser)[k]
        IN  /\ (fallback.has /\ g.pc = "fetched" /\ g.css = fallback)
                    => (allFailed(g) /\ ~g.exc)
            /\ (f.pc = "failed" /\ g.pc = "fetched")
                    => /\ allFailed(g)
                       /\ localStorage' = localStorage
                       /\ IF fallback.has THEN g.css = fallback /\ ~g.exc
                                          ELSE g.css = None /\ g.exc
            /\ (fallback.has /\ localStorage'.cache # localStorage.cache
                             /\ localStorage'.cache # NoItem)
                    => JSONparse(localStorage'.cache) # Thrown
                       /\ JSONparse(localStorage'.cache).val.css # fallback.val
            /\ (f.pc = "fetched" /\ f.exc /\ g # f)
                    => (~fallback.has /\ dom' = dom /\ g.pc = "free")
      ]_vars

\* Every URL has failed and utils.fetchCSS has returned the fallback text.
C23_Witness ==
    \E i \in 1..MaxCalls :
        /\ V2
        /\ calls[i].pc = "fetched"
        /\ berryFallbackCSS(site).has
        /\ calls[i].css = berryFallbackCSS(site)
        /\ Len(calls[i].log) = Len(V2_urls(isBerryBrowser))

(***************************************************************************)
(* C24  Overlapping injection cycles are excluded (v3.0, v2.2): at most    *)
(* one activation of styleManager.apply is between its entry and its       *)
(* return, and no apply is started while an earlier one is still waiting.  *)
(***************************************************************************)
C24_NoOverlappingApply ==
    (V3 \/ V2) =>
        Cardinality({i \in 1..MaxCalls :
                        calls[i].pc \notin {"free", "retryWait", "initRest", "uncaught"}}) <= 1

(***************************************************************************)
(* C25  Disabled means not applied (v3.0, v4.0): when the enabled flag is  *)
(* false and nothing of the pipeline is pending - no activation, request,  *)
(* timer or DOMContentLoaded listener - no element with the styleID is in  *)
(* the document.                                                           *)
(***************************************************************************)
C25_DisabledNotApplied ==
    LET quiet == /\ FreeSlots = 1..MaxCalls
                 /\ net = {}
                 /\ listeners = <<>>
                 /\ \A k \in TimerKinds : timers[k] = 0
        disabled == \/ V3 /\ ~getCurrentSiteEnabled
                    \/ V4 /\ ~isEnabled /\ ~getEnabled(localStorage)
    IN  (disabled /\ quiet) => ~isApplied(dom)

\* C26: in v4.0, a walk of fetchCSS in which every attempt fails makes
\* exactly MAX_RETRIES (2) passes over the matrix of the five URLs and the two
\* transports, twenty attempts in URL-then-transport order; after pass k that
\* is not the last it waits 1000*(k+1) ms, after the last pass it does not
\* wait, and it returns no content with the in-progress flag cleared.
C26_RetryBudget ==
    [][\A i \in 1..MaxCalls :
        LET f == calls[i]
            g == calls'[i]
            total == MAX_RETRIES_V4 * Len(cdnURLs) * 2
            perPass == Len(cdnURLs) * 2
        IN  V4 =>
              /\ Len(g.log) <= total
              /\ (f.pc = "failed" /\ g.pc = "fetched") =>
                    /\ Len(g.log) = total
                    /\ g.css = None
                    /\ ~isFetching'
                    /\ net' = net
                    /\ \A k \in 1..total :
                          /\ ~g.log[k].success
                          /\ g.log[k].url = f.order[(((k - 1) % perPass) \div 2) + 1]
                          /\ g.log[k].transport =
                                (IF k % 2 = 1 THEN "fetch" ELSE "xhr")
              /\ (f.pc = "failed" /\ Len(g.log) = total) => g.pc = "fetched"
              /\ (f.pc = "failed" /\ Len(g.log) < total /\ Len(g.log) % perPass = 0) =>
                    /\ g.pc = "backoff"
                    /\ g.delay = 1000 * (Len(g.log) \div perPass)
                    /\ net' = net
              /\ (g.pc = "backoff" /\ f.pc # "backoff") =>
                    /\ f.pc = "failed"
                    /\ Len(g.log) % perPass = 0
                    /\ Len(g.log) < total
              /\ (f.pc = "backoff" /\ g.pc # "backoff") =>
                    \E r \in net' \ net : r.call = i /\ r.d.url = f.order[1]
    ]_vars

\* C26: a walk that failed twenty times has returned no content.
C26_Witness ==
    \E i \in 1..MaxCalls :
        /\ V4 /\ calls[i].pc = "fetched"
        /\ Len(calls[i].log) = MAX_RETRIES_V4 * Len(cdnURLs) * 2
        /\ \A k \in 1..Len(calls[i].log) : ~calls[i].log[k].success
        /\ calls[i].css = None
        /\ ~isFetching

\* C27: in v3.0, apply first removes every artifact, then tries the
\* techniques in the order inline style element, blob link, external link:
\* the first element a cycle adds is the inline style element, a blob link
\* is added only by a cycle that already tried a technique, an external
\* link only after the blob link was given up, and a cycle whose link is
\* confirmed adds nothing more.
C27_TechniqueOrder ==
    [][V3 => \A i \in 1..MaxCalls :
        LET f == calls[i]
            g == calls'[i]
        IN  /\ (f.pc \notin {"readyWait", "ready"} /\ g.pc \in {"readyWait", "ready"}) =>
                  ~isApplied(dom')
            /\ (f.pc = "fetched" /\ g.pc # "fetched" /\ dom' # dom) =>
                  dom'[Len(dom')].method = "inline"
            /\ (g.pc = "blob" /\ f.pc # "blob") => f.pc # "fetched"
            /\ (g.pc = "external" /\ f.pc # "external") => f.pc = "blob"
            /\ (f.pc \in {"blob", "external"} /\ g.pc \notin {"blob", "external"}
                  /\ \E k \in PendingLinks(dom) : k \notin PendingLinks(dom')
                                                   /\ Len(dom') = Len(dom)) =>
                  \A k \in 1..Len(dom) : dom'[k].method = dom[k].method
    ]_vars

\* C28: in v3.0, when apply resolves false after its techniques were tried
\* (the last of them, the external link, given up by its timer or by
\* onerror), no element with the styleID is left in the document, so that
\* isApplied() is false and forceReapply is not held back.
C28_FailedApplyLeavesNothing ==
    [][V3 => \A i \in 1..MaxCalls :
        (/\ calls[i].pc = "external"
         /\ calls'[i].pc # "external"
         /\ ~\E k \in 1..Len(dom') : dom'[k].method = "external" /\ dom'[k].load = "loaded")
        => ~isApplied(dom')
    ]_vars

\* C29: every object URL made for a blob link is revoked once its link is
\* no longer in the document (given up by onerror, taken out by remove() or
\* by a later apply, or removed by the host page): the object URLs alive are
\* those of the blob links in the document.
C29_ObjectURLsReleased ==
    objectURLs = Cardinality({k \in 1..Len(dom) : dom[k].method = "blob"})

\* C30: in v3.0 and v2.2, on a profile that requires a ready check, no
\* cycle of apply adds an element to the document unless the page had the
\* elements the ready check looks for; a cycle whose wait ran out without
\* them injects nothing.
C30_ReadyBeforeInjection ==
    [][((V3 \/ V2) /\ site = "chatgpt" /\ Len(dom') > Len(dom)) => pageReady]_vars

\* C31: the aggressive observer of v3.0 makes at most maxChecks + 1 presence
\* checks and is stopped by the tick after the last of them; while it runs
\* and the styles are enabled, a tick that finds the artifact missing calls
\* forceReapply, which starts a cycle of apply unless apply's own guards
\* refuse it.
C31_BoundedPolling ==
    [][V3 =>
        LET check == checkCount' = checkCount + 1
            stop == observer = "aggressive" /\ observer' = "stopped"
        IN  /\ checkCount' <= V3Checks + 1
            /\ check => /\ observer = "aggressive" /\ observer' = "aggressive"
                        /\ checkCount <= V3Checks
            /\ stop => checkCount = V3Checks + 1 /\ UNCHANGED <<dom, calls, checkCount>>
            /\ (observer = "stopped" /\ observer' = "stopped") => UNCHANGED checkCount
            /\ (check /\ ~isApplied(dom) /\ getCurrentSiteEnabled
                  /\ ~isLoading /\ ~lastApplyRecent) =>
                    /\ \E i \in 1..MaxCalls :
                          calls[i].pc = "free" /\ calls'[i].from = "observer"
                    /\ isLoading'
            /\ (check /\ (isApplied(dom) \/ ~getCurrentSiteEnabled)) =>
                    UNCHANGED <<dom, calls, isLoading>>
    ]_vars

\* C31: the observer has made its last check and was stopped by the next
\* tick.
C31_Witness == V3 /\ observer = "stopped" /\ checkCount = V3Checks + 1

\* C32: state.isLoading of v3.0 is true exactly while a cycle of
\* styleManager.apply is between its guard and its return, and
\* state.isFetching of v4.0 exactly while a walk of fetchCSS is between its
\* guard and its return: every way out of a cycle clears the flag, and a
\* call the guard turns away leaves the flag of the running cycle set.
C32_FlagReleased ==
    LET applying == {i \in 1..MaxCalls :
                        calls[i].pc \in {"poll", "readyWait", "ready", "await", "failed",
                                         "ok", "fetched", "blob", "external"}}
    IN  /\ V3 => (isLoading <=> applying # {})
        /\ V3 => Cardinality(applying) <= 1
        /\ V4 => (isFetching <=> Walking # {})
        /\ V4 => Cardinality(Walking) <= 1

\* C32: a cycle has ended (by exhaustion in v4.0, by the catch of apply in
\* v3.0) and the flag is clear.
C32_Witness ==
    /\ \A i \in 1..MaxCalls : calls[i].pc \notin WalkPCs
    /\ \/ /\ V4 /\ ~isFetching
          /\ \E i \in 1..MaxCalls :
                calls[i].pc = "fetched" /\ Len(calls[i].log) = V4_attempts
       \/ /\ V3 /\ ~isLoading
          /\ \E i \in 1..MaxCalls : calls[i].pc = "retryWait" /\ calls[i].exc

\* C33: for a function returned by utils.throttle(func, delay), any two
\* executions of func are at least delay ms apart, and a call that does not
\* execute at once leaves a timeout that will execute func with that call's
\* arguments.
C33_ThrottleSpacing ==
    [][/\ (throttled'.execAt # throttled.execAt /\ throttled.execAt.has) =>
             throttled'.execAt.val - throttled.execAt.val >= THROTTLE_DELAY
       /\ (throttled'.called # throttled.called \/ throttled'.timer # throttled.timer) =>
             \/ throttled'.timer.has /\ throttled'.timer.val.args = throttled'.called.val
             \/ ~throttled'.timer.has /\ throttled'.arg = throttled'.called
    ]_vars

\* C34: v4.0 getOptimizedCDNOrder returns a permutation of cdnURLs: the
\* configured order when no URL is remembered or the remembered one is not
\* configured, otherwise the remembered URL first and the others in their
\* configured relative order.  Stated of the order every walk of fetchCSS
\* starts with.
C34_StablePermutation ==
    [][\A i \in 1..MaxCalls :
        (V4 /\ calls'[i].order # calls[i].order /\ calls'[i].order # <<>>) =>
            LET out == calls'[i].order
                cdn == successfulCDN'
                known == cdn.has /\ \E k \in 1..Len(cdnURLs) : cdnURLs[k] = cdn.val
            IN  /\ Len(out) = Len(cdnURLs)
                /\ \A k \in 1..Len(cdnURLs) : \E j \in 1..Len(out) : out[j] = cdnURLs[k]
                /\ \A j, k \in 1..Len(out) : out[j] = out[k] => j = k
                /\ ~known => out = cdnURLs
                /\ known => /\ out[1] = cdn.val
                            /\ Tail(out) = SelectSeq(cdnURLs, LAMBDA u : u # cdn.val)
    ]_vars

\* C34: a walk started with the third configured URL remembered and goes
\* through the reordered list.
C34_Witness ==
    \E i \in 1..MaxCalls :
        /\ V4 /\ calls[i].pc = "await"
        /\ successfulCDN = Some(cdnURLs[3])
        /\ calls[i].order[1] = cdnURLs[3]
        /\ calls[i].order[2] = cdnURLs[1]
        /\ calls[i].idx > 2

\* C35: in v4.0 every transport attempt of a walk leaves exactly one record
\* in the log of attempts, in attempt order, and only the last record of a
\* walk can be a success; the log of a running walk only grows, and a
\* fetchCSS call turned away by the in-progress test changes no log.
C35_AttemptLog ==
    [][V4 => \A i \in 1..MaxCalls :
        LET f == calls[i]
            g == calls'[i]
        IN  /\ (g.pc \in WalkPCs \cup {"fetched"}) =>
                  /\ \A k \in 1..Len(g.log) :
                        /\ g.log[k].url = V4_attempt(g.order, k).url
                        /\ g.log[k].transport = V4_attempt(g.order, k).transport
                        /\ g.log[k].success => k = Len(g.log)
                  /\ g.pc = "await" => Len(g.log) = g.idx - 1
                  /\ g.pc \in {"failed", "ok"} => Len(g.log) = g.idx - 1
                  /\ g.pc = "backoff" => Len(g.log) = g.idx
                  /\ (g.pc = "fetched" /\ g.order # <<>>) => Len(g.log) = g.idx
            /\ (f.pc \in WalkPCs /\ g.pc \in WalkPCs \cup {"fetched"}) =>
                  /\ Len(g.log) \in {Len(f.log), Len(f.log) + 1}
                  /\ SubSeq(g.log, 1, Len(f.log)) = f.log
                  /\ (f.pc \in {"failed", "ok"}) => Len(g.log) = Len(f.log) + 1
                  /\ (f.pc = "ok") => g.log[Len(g.log)].success
                  /\ (f.pc = "failed") => ~g.log[Len(g.log)].success
            /\ (f.pc = "fetchCSS" /\ isFetching) =>
                  /\ g.log = <<>> /\ g.pc \notin WalkPCs
                  /\ \A j \in 1..MaxCalls : j # i => calls'[j] = calls[j]
            /\ (f.pc = "fetchCSS" /\ g.pc \in WalkPCs) => ~isFetching /\ g.log = <<>>
    ]_vars

\* C35: a walk ended by a success after a failure, its log holding both.
C35_Witness ==
    \E i \in 1..MaxCalls :
        /\ V4 /\ calls[i].pc = "fetched"
        /\ Len(calls[i].log) >= 2
        /\ calls[i].log[Len(calls[i].log)].success
        /\ ~calls[i].log[1].success

\* C36: in v4.0, once the script has started, whenever the persisted enabled
\* flag is false the toggle control is in place for the user, a page load
\* that finds the flag already false included.
C36_ReenablePossible ==
    (V4 /\ boot # "start" /\ ~getEnabled(localStorage)) => controls

\* C37: in v3.0 in Berry mode, after any sequence of error-level log calls
\* at most 10 error entries are persisted, and they are the most recent of
\* the entries ever stored: every entry that is gone is older than every
\* entry that is kept.
C37_ErrorLogCap ==
    (V3 /\ isBerryBrowser) =>
        /\ Cardinality(errlog.keys) <= ERROR_LOG_KEEP
        /\ errlog.keys \subseteq errlog.stored
        /\ \A k \in errlog.keys : \A s \in errlog.stored \ errlog.keys : s < k
        /\ Cardinality(errlog.stored) >= ERROR_LOG_KEEP =>
              Cardinality(errlog.keys) = ERROR_LOG_KEEP

\* C37: more than 10 errors were logged since the page was loaded, and the
\* oldest of them are gone.
C37_Witness ==
    /\ V3 /\ isBerryBrowser
    /\ Cardinality(errlog.keys) = ERROR_LOG_KEEP
    /\ \E s \in errlog.stored \ errlog.keys : s >= ErrEpoch

\* C38: in the collapse/expand script, processing an element of 200px or
\* more leaves it collapsed exactly when it is an auto-collapse user message
\* whose persisted state is not 'expanded', or its persisted state is
\* 'collapsed'; a click on its toggle button flips the collapsed state and
\* leaves the new state persisted under the message id; an element never has
\* more than one toggle button; and an element below 200px gets no button
\* and is processed by a later callback once it is tall enough.
C38_CollapseState ==
    [][\A i \in 1..Len(chat.msgs) :
        LET m == chat.msgs[i]
            n == chat'.msgs[i]
            id == generateMessageId(i)
        IN  /\ (chat'.op = "observe" /\ ~m.processed /\ m.height >= MIN_HEIGHT) =>
                  /\ n.processed /\ n.buttons = 1
                  /\ n.collapsed <=> \/ m.auto /\ chat.store[id] # "expanded"
                                     \/ chat.store[id] = "collapsed"
            /\ (chat'.op = "observe" /\ m.height < MIN_HEIGHT) =>
                  n.buttons = 0 /\ ~n.processed
            /\ (chat'.op = "click" /\ chat'.at = i) =>
                  /\ n.collapsed = ~m.collapsed
                  /\ chat'.store[id] = (IF n.collapsed THEN "collapsed" ELSE "expanded")
            /\ n.buttons <= 1
    ]_vars


=============================================================================
